---- MODULE Spec2Model ----
(***************************************************************************)
(* Model of the concurrent core of kajiBow/myakumyaku_py:                  *)
(*   - FullAutoReserver.py : availability poller + inline submission racer *)
(*   - ManualReserver.py   : fire-and-forget racer, schedule trigger       *)
(*   - both                : cookie health monitor                         *)
(* The two servers are separate processes; each has its own specification  *)
(* (SpecFull, SpecSchedule, ...) over its own part of the state.           *)
(***************************************************************************)
EXTENDS Integers, Sequences, FiniteSets, TLC

VARIABLES
    fa,              \* FullAutoReserver module globals (running, current_state, ...)
    mt,              \* FullAutoReserver monitor_task threads
    mr,              \* ManualReserver module globals (running, last_status_code, ...)
    rt,              \* ManualReserver reservation_task threads
    reqs,            \* ManualReserver send_single_request threads
    sched,           \* ManualReserver schedule_monitor thread (locals + position)
    schedule_store,  \* ManualReserver scheduled_tasks.json
    edit,            \* ManualReserver /schedule/add, /schedule/delete handler in progress
    clock,           \* ManualReserver wall clock, in ticks since midnight
    fired,           \* history: number of racers started by schedule_monitor per entry
    ck,              \* cookie monitor globals (cookie_monitor_running, cookie_status)
    cm,              \* cookie_monitor_loop and run_check threads
    cookie_invalid_log,  \* cookie monitor: the list of failed validations
    log_hist,        \* history: the failed validations since the list was last cleared
    cookie_file,     \* cookie.txt, written by autologin.py
    saved,           \* the persisted settings of the server (form_data.json,
                     \* monitor_settings.json): the stored credential
    adj,             \* one call of adjust_time_for_post: arguments and result
    scan             \* one availability scan of monitor_task: snapshot and payload

vars == <<fa, mt, mr, rt, reqs, sched, schedule_store, edit, clock, fired, ck, cm,
          cookie_invalid_log, log_hist, cookie_file, saved, adj, scan>>

fa_vars == <<fa, mt>>
mr_vars == <<mr, rt, reqs, sched, schedule_store, edit, clock, fired>>
ck_vars == <<ck, cm, cookie_invalid_log, log_hist, cookie_file>>
fn_vars == <<adj, scan>>

(***************************************************************************)
(* Bounds of the model                                                     *)
(***************************************************************************)
MaxThreads == 2        \* monitor_task threads that may be alive at once
MaxPostDuration == 1   \* largest post_duration a /start request carries (ticks)
MaxNoVacancy == 2      \* cap of no_vacancy_count
MaxCount == 2          \* cap of status_code_count
MaxRacers == 1         \* reservation_task threads that may be alive at once
MaxReqs == 2           \* send_single_request threads that may be in flight at once
TicksPerMinute == 2    \* resolution of the wall clock (ticks per minute)
MinutesPerDay == 2     \* length of the modelled day, in minutes
MaxSchedules == 2      \* entries scheduled_tasks.json may hold
MaxUid == 2            \* schedule entries ever created
MaxCookieThreads == 2  \* cookie_monitor_loop and run_check threads alive at once
MaxInterval == 1       \* largest interval (minutes) a /cookie/monitor/start carries
MaxWaitSeconds == 2    \* cap of the one-second sleeps of one wait
MaxLogged == 2         \* failed validations one run may add to cookie_invalid_log
MaxOffset == 10        \* largest offset (minutes, plus or minus whole days) tried
MaxSlots == 2          \* slots one venue has in an availability snapshot
MaxVenues == 2         \* venues a /start request may track

(***************************************************************************)
(* Values shared by both servers                                           *)
(***************************************************************************)
None == 0              \* Python None of last_status_code
HTTP_OK == 200

\* Credentials: the one the settings hold at startup, one the user types into
\* the form, and the one a successful autologin.py run writes to cookie.txt
InitialCookie == "old"
TypedCookie == "typed"
FreshCookie == "new"
\* the cookie an earlier run of autologin.py left in cookie.txt
StaleCookie == "stale"

SavedInit == saved = [cookie |-> InitialCookie]

StatusCodes == {HTTP_OK, 422}

\* Response bodies, as the text the server sent.
BodyTexts == {"{}", "{\"user_visiting_reservation_ids\":[1]}", "{\"error\":1}", "<html>"}

\* The responses the reservation endpoint is modelled to send.
Responses ==
    {[status_code |-> HTTP_OK, text |-> b] : b \in BodyTexts} \cup
    {[status_code |-> 422, text |-> "{\"error\":1}"]}

NoResponse == [status_code |-> None, text |-> ""]

\* r.json(): the set of top-level keys of the JSON object, or "error" when the
\* text is not JSON (the call raises).
json(text) ==
    CASE text = "{}" -> [ok |-> TRUE, keys |-> {}]
      [] text = "{\"user_visiting_reservation_ids\":[1]}" ->
            [ok |-> TRUE, keys |-> {"user_visiting_reservation_ids"}]
      [] text = "{\"error\":1}" -> [ok |-> TRUE, keys |-> {"error"}]
      [] OTHER -> [ok |-> FALSE, keys |-> {}]

\* try: body = r.json()  except: body = {}
BodyOrEmpty(r) == IF json(r.text).ok THEN json(r.text).keys ELSE {}

(***************************************************************************)
(* FullAutoReserver.py                                                     *)
(***************************************************************************)
Threads == 1..MaxThreads

PostDurations == 0..MaxPostDuration

\* Availability snapshots: the outcome of one GET, reduced to what the
\* poller does with it.
GetOutcomes == {"exception", "non200", "vacancy", "no_vacancy"}

\* what send_discord_notification (lines 235-259) ends in:
\* not_sent   no webhook_url, or not a Discord webhook URL: return at line 247
\* delivered  the webhook answered 204
\* rejected   the webhook answered another status (line 257)
\* exception  requests.post raised (line 258)
NotifyOutcomes == {"not_sent", "delivered", "rejected", "exception"}

\* monitor_task's locals; cookie is the credential of headers_post (line 329),
\* sent the credential the POST in flight carries, notified what became of
\* the success notification, got the outcome of the GET of this iteration
NoThread == [pc |-> "none", post_duration |-> 0, end_left |-> 0, r |-> NoResponse,
             cookie |-> "", sent |-> "", notified |-> "", got |-> ""]

\* if r.status_code == 200 and body == {}
IsSuccessFull(r) == r.status_code = HTTP_OK /\ BodyOrEmpty(r) = {}

\* lines 387-392: consecutive status counter
CountStatus(g, r) ==
    IF r.status_code = g.last_status_code
    THEN [g EXCEPT !.status_code_count = @ + 1]
    ELSE [g EXCEPT !.last_status_code = r.status_code, !.status_code_count = 1]

FullInit ==
    /\ fa = [running |-> FALSE, last_status_code |-> None, status_code_count |-> 0,
             no_vacancy_count |-> 0, current_state |-> "idle", stopped |-> FALSE]
    /\ mt = [t \in Threads |-> NoThread]

\* POST /save: the posted object replaces the settings (a missing cookie key
\* reads back as "")
FullSave(cookie) ==
    /\ saved' = [cookie |-> cookie]
    /\ UNCHANGED <<fa_vars, mr_vars, ck_vars, fn_vars>>

\* /start answering as if no run were in progress
StartAccepted_Always(running) == TRUE

\* lines 1321-1322 (ManualReserver.py 629-630): a request that finds running
\* True returns the already-running status and does nothing else
StartAccepted(running) == ~running

\* POST /start without the reset of line 1342
FullStart_KeepsCount(t, d, cookie) ==
    /\ StartAccepted(fa.running)
    /\ mt[t].pc = "none"
    /\ \A u \in Threads : u < t => mt[u].pc /= "none"
    /\ saved' = [cookie |-> cookie]
    /\ fa' = [running |-> TRUE, last_status_code |-> None, status_code_count |-> 0,
              no_vacancy_count |-> fa.no_vacancy_count, current_state |-> "starting",
              stopped |-> FALSE]
    /\ mt' = [mt EXCEPT ![t] = [NoThread EXCEPT !.pc = "begin", !.post_duration = d,
                                                !.cookie = cookie]]
    /\ UNCHANGED <<mr_vars, ck_vars, fn_vars>>

\* POST /start: the form is saved (lines 1327-1337), the thread gets the form's
\* cookie (line 1346)
FullStart(t, d, cookie) ==
    /\ StartAccepted(fa.running)
    /\ mt[t].pc = "none"
    /\ \A u \in Threads : u < t => mt[u].pc /= "none"
    /\ saved' = [cookie |-> cookie]
    /\ fa' = [running |-> TRUE, last_status_code |-> None, status_code_count |-> 0,
              no_vacancy_count |-> 0, current_state |-> "starting",
              stopped |-> FALSE]
    /\ mt' = [mt EXCEPT ![t] = [NoThread EXCEPT !.pc = "begin", !.post_duration = d,
                                                !.cookie = cookie]]
    /\ UNCHANGED <<mr_vars, ck_vars, fn_vars>>

\* POST /stop (stopped: history, a /stop has cleared running since the last
\* /start)
FullStop ==
    /\ fa' = [fa EXCEPT !.running = FALSE, !.stopped = @ \/ fa.running]
    /\ UNCHANGED mt
    /\ UNCHANGED <<mr_vars, ck_vars, fn_vars, saved>>

\* line 341
MtBegin(t) ==
    /\ mt[t].pc = "begin"
    /\ fa' = [fa EXCEPT !.current_state = "monitoring"]
    /\ mt' = [mt EXCEPT ![t].pc = "loop"]
    /\ UNCHANGED <<mr_vars, ck_vars, fn_vars, saved>>

\* line 344 (while running) and line 346 (the GET is issued)
MtLoop(t) ==
    /\ mt[t].pc = "loop"
    /\ mt' = [mt EXCEPT ![t].pc = IF fa.running THEN "get" ELSE "exit",
                        ![t].got = ""]
    /\ UNCHANGED fa
    /\ UNCHANGED <<mr_vars, ck_vars, fn_vars, saved>>

\* lines 346-350 and 431-433 counting a failed GET as a poll without vacancy
AfterGet_CountsFailures(g, o) ==
    IF o = "vacancy"
    THEN [g EXCEPT !.current_state = "posting", !.no_vacancy_count = 0]
    ELSE [g EXCEPT !.no_vacancy_count = @ + 1]

\* what one GET leaves in the globals: nothing when it raises (431-433) or is
\* not answered 200 (347-350), lines 369-370 when a target is found, line 426
\* when none is
AfterGet(g, o) ==
    CASE o \in {"exception", "non200"} -> g
      [] o = "vacancy" -> [g EXCEPT !.current_state = "posting", !.no_vacancy_count = 0]
      [] OTHER -> [g EXCEPT !.no_vacancy_count = @ + 1]

\* lines 346-380 and 425-429: the GET returns and the snapshot is scanned; the
\* thread sleeps interval (lines 349, 429, 433) before it is back at line 344
MtGet(t, o) ==
    /\ mt[t].pc = "get"
    /\ o = "no_vacancy" => fa.no_vacancy_count < MaxNoVacancy
    /\ fa' = AfterGet(fa, o)
    /\ mt' = [mt EXCEPT ![t] = IF o = "vacancy"
                               THEN [@ EXCEPT !.pc = "postloop", !.got = o,
                                              !.end_left = mt[t].post_duration]
                               ELSE [@ EXCEPT !.pc = "loop", !.got = o]]
    /\ UNCHANGED <<mr_vars, ck_vars, fn_vars, saved>>

\* line 383 (while running and time.time() < end_time) and 384-385 (POST issued)
MtPostLoop(t) ==
    /\ mt[t].pc = "postloop"
    /\ mt' = [mt EXCEPT ![t] = IF fa.running /\ mt[t].end_left > 0
                               THEN [@ EXCEPT !.pc = "post", !.sent = mt[t].cookie]
                               ELSE [@ EXCEPT !.pc = "postend"]]
    /\ UNCHANGED fa
    /\ UNCHANGED <<mr_vars, ck_vars, fn_vars, saved>>

\* lines 385-399: the POST returns, the counters are updated, the response is classified
MtPost(t, r) ==
    /\ mt[t].pc = "post"
    /\ r.status_code = fa.last_status_code => fa.status_code_count < MaxCount
    /\ fa' = CountStatus(fa, r)
    /\ mt' = [mt EXCEPT ![t].r = r, ![t].sent = "",
                        ![t].pc = IF IsSuccessFull(r) THEN "success_flag" ELSE "postwait"]
    /\ UNCHANGED <<mr_vars, ck_vars, fn_vars, saved>>

\* line 385 raises: except handler at 431-433
MtPostException(t) ==
    /\ mt[t].pc = "post"
    /\ mt' = [mt EXCEPT ![t].pc = "loop", ![t].end_left = 0, ![t].sent = ""]
    /\ UNCHANGED fa
    /\ UNCHANGED <<mr_vars, ck_vars, fn_vars, saved>>

\* lines 403-412 with line 258 re-raising: the exception leaves running as it is
RunningAfterNotify_Raises(running, o) == IF o = "exception" THEN running ELSE FALSE

\* lines 403-412: send_discord_notification returns None whatever happened to
\* the message, then running = False
RunningAfterNotify(running, o) == FALSE

\* lines 400-412: the notification is attempted, then running = False
MtSuccessFlag(t, o) ==
    /\ mt[t].pc = "success_flag"
    /\ fa' = [fa EXCEPT !.running = RunningAfterNotify(@, o)]
    /\ mt' = [mt EXCEPT ![t].pc = "success_state", ![t].notified = o]
    /\ UNCHANGED <<mr_vars, ck_vars, fn_vars, saved>>

\* lines 413-414 without the return: the thread goes on to the wait at 416-418
MtSuccessState_NoReturn(t) ==
    /\ mt[t].pc = "success_state"
    /\ fa' = [fa EXCEPT !.current_state = "success"]
    /\ mt' = [mt EXCEPT ![t].pc = "postwait"]
    /\ UNCHANGED <<mr_vars, ck_vars, fn_vars, saved>>

\* lines 413-414
MtSuccessState(t) ==
    /\ mt[t].pc = "success_state"
    /\ fa' = [fa EXCEPT !.current_state = "success"]
    /\ mt' = [mt EXCEPT ![t] = NoThread]
    /\ UNCHANGED <<mr_vars, ck_vars, fn_vars, saved>>

\* lines 416-418
MtPostWait(t) ==
    /\ mt[t].pc = "postwait"
    /\ mt' = [mt EXCEPT ![t].pc = "postloop", ![t].r = NoResponse]
    /\ UNCHANGED fa
    /\ UNCHANGED <<mr_vars, ck_vars, fn_vars, saved>>

\* lines 421 and 429 without the resets of lines 422-423
MtPostEnd_KeepsCounters(t) ==
    /\ mt[t].pc = "postend"
    /\ fa' = [fa EXCEPT !.current_state = "monitoring"]
    /\ mt' = [mt EXCEPT ![t].pc = "loop", ![t].end_left = 0]
    /\ UNCHANGED <<mr_vars, ck_vars, fn_vars, saved>>

\* lines 421-423 and 429
MtPostEnd(t) ==
    /\ mt[t].pc = "postend"
    /\ fa' = [fa EXCEPT !.current_state = "monitoring", !.last_status_code = None,
                        !.status_code_count = 0]
    /\ mt' = [mt EXCEPT ![t].pc = "loop", ![t].end_left = 0]
    /\ UNCHANGED <<mr_vars, ck_vars, fn_vars, saved>>

\* MtExit without the final current_state = "idle"
MtExit_KeepsPhase(t) ==
    /\ mt[t].pc = "exit"
    /\ mt' = [mt EXCEPT ![t] = NoThread]
    /\ UNCHANGED <<fa, mr_vars, ck_vars, fn_vars, saved>>

\* lines 435-436
MtExit(t) ==
    /\ mt[t].pc = "exit"
    /\ fa' = [fa EXCEPT !.current_state = "idle"]
    /\ mt' = [mt EXCEPT ![t] = NoThread]
    /\ UNCHANGED <<mr_vars, ck_vars, fn_vars, saved>>

\* time.time() advances by one tick: every running budget shrinks
FullTick ==
    /\ \E t \in Threads : mt[t].end_left > 0
    /\ mt' = [t \in Threads |->
                [mt[t] EXCEPT !.end_left = IF @ > 0 THEN @ - 1 ELSE 0]]
    /\ UNCHANGED fa
    /\ UNCHANGED <<mr_vars, ck_vars, fn_vars, saved>>

\* the poller and its racer, started with one of the given cookies in the form
FullNextOn(cookies) ==
    \/ \E t \in Threads, d \in PostDurations, c \in cookies : FullStart(t, d, c)
    \/ FullStop
    \/ \E t \in Threads : MtBegin(t)
    \/ \E t \in Threads : MtLoop(t)
    \/ \E t \in Threads, o \in GetOutcomes : MtGet(t, o)
    \/ \E t \in Threads : MtPostLoop(t)
    \/ \E t \in Threads, r \in Responses : MtPost(t, r)
    \/ \E t \in Threads : MtPostException(t)
    \/ \E t \in Threads, o \in NotifyOutcomes : MtSuccessFlag(t, o)
    \/ \E t \in Threads : MtSuccessState(t)
    \/ \E t \in Threads : MtPostWait(t)
    \/ \E t \in Threads : MtPostEnd(t)
    \/ \E t \in Threads : MtExit(t)
    \/ FullTick

\* the page as loaded at startup: its form holds the stored cookie
FullNext == FullNextOn({InitialCookie})

\* the next step of thread t when its GETs end as in gets, its POSTs are
\* answered from responses and its notifications end as in notes
MtStep(t, gets, responses, notes) ==
    \/ MtBegin(t)
    \/ MtLoop(t)
    \/ \E o \in gets : MtGet(t, o)
    \/ MtPostLoop(t)
    \/ \E r \in responses : MtPost(t, r)
    \/ MtPostException(t)
    \/ \E o \in notes : MtSuccessFlag(t, o)
    \/ MtSuccessState(t)
    \/ MtPostWait(t)
    \/ MtPostEnd(t)
    \/ MtExit(t)

\* a site whose availability GET either fails or shows the target slot and
\* whose reservation POST answers 200 with {} or 422, no webhook configured
StopGets == {"exception", "vacancy"}
StopResponses == {r \in Responses : r.text = "{}" \/ r.status_code = 422}
StopNotes == {"not_sent"}

FullStopStep(t) == MtStep(t, StopGets, StopResponses, StopNotes)

FullStopNext ==
    \/ \E t \in Threads, d \in PostDurations : FullStart(t, d, InitialCookie)
    \/ FullStop
    \/ \E t \in Threads : FullStopStep(t)
    \/ FullTick

\* the same site while the user stops and starts further runs with a newly
\* typed credential
FullRestartNext ==
    \/ \E t \in Threads, d \in PostDurations : FullStart(t, d, TypedCookie)
    \/ FullStop
    \/ \E t \in Threads : FullStopStep(t)
    \/ FullTick

\* every live thread is scheduled again, every network call returns or raises
\* and every sleep ends
FullFairness == \A t \in Threads : WF_vars(FullStopStep(t))

(***************************************************************************)
(* ManualReserver.py                                                       *)
(***************************************************************************)
Racers == 1..MaxRacers
\* the threads of a run and of a run started while the first thread is alive
\* (DOMAIN rt is Racers or RestartRacers)
RestartRacers == 1..(MaxRacers + 1)
ReqSlots == 1..MaxReqs
Uids == 1..MaxUid

SCHEDULE_TIME_LIMIT == 60   \* schedule_monitor passes 60 as time_limit
NoTimeLimit == -1           \* time_limit=None

SecondsPerTick == 60 \div TicksPerMinute
DayTicks == TicksPerMinute * MinutesPerDay
Minutes == 0..(MinutesPerDay - 1)

\* now.strftime("%H:%M") and now.second of the wall clock
current_time_of(c) == c \div TicksPerMinute
current_second_of(c) == (c % TicksPerMinute) * SecondsPerTick

\* Python truthiness of time_limit: None and 0 are both falsy
Truthy(time_limit) == time_limit /= NoTimeLimit /\ time_limit /= 0

\* Ticks from start_timestamp until (time.time() - start_timestamp) >= time_limit
TicksOf(time_limit) ==
    IF time_limit = NoTimeLimit THEN 0
    ELSE (time_limit + SecondsPerTick - 1) \div SecondsPerTick

\* line 476: time_limit and (time.time() - start_timestamp) >= time_limit
\* (th.left: ticks left until the second operand holds)
TimeLimitReached(th) == Truthy(th.time_limit) /\ th.left = 0

\* lines 409-411
IsSuccessManual(r) ==
    /\ r.status_code = HTTP_OK
    /\ ("user_visiting_reservation_ids" \in BodyOrEmpty(r) \/ BodyOrEmpty(r) = {})

\* cookie: the credential of the racer's headers (line 462), handed to every
\* request it dispatches (line 487)
NoRacer == [pc |-> "none", time_limit |-> NoTimeLimit, left |-> 0, cookie |-> ""]
\* n: the value the request is about to store in status_code_count
NoReq == [pc |-> "none", r |-> NoResponse, cookie |-> "", n |-> 0]

ScheduleEntries == [trigger_time : Minutes, enabled : BOOLEAN, uid : Uids]

\* scheduled_tasks.json as the process finds it at startup
InitialSchedules ==
    {<<>>} \cup
    {<<[trigger_time |-> m, enabled |-> TRUE, uid |-> 1]>> : m \in Minutes} \cup
    {<<[trigger_time |-> 0, enabled |-> TRUE, uid |-> 1],
       [trigger_time |-> n, enabled |-> TRUE, uid |-> 2]>> : n \in Minutes}

SchedIdle == [pc |-> "load", schedules |-> <<>>, current_time |-> 0,
              current_second |-> 0, i |-> 1]
EditIdle == [pc |-> "idle", schedules |-> <<>>]

FreeSlot(f, S) == CHOOSE x \in S : f[x].pc = "none" /\ \A y \in S : y < x => f[y].pc /= "none"
HasFreeSlot(f, S) == \E x \in S : f[x].pc = "none"

Bump(f, u) == [f EXCEPT ![u] = IF @ < 2 THEN @ + 1 ELSE @]

\* list.pop(index)
Pop(s, k) == [j \in 1..(Len(s) - 1) |-> IF j < k THEN s[j] ELSE s[j + 1]]

ManualInitOn(schedules) ==
    /\ mr = [running |-> FALSE, last_status_code |-> None, status_code_count |-> 0,
             streak_code |-> None, streak |-> 0]
    /\ rt = [k \in Racers |-> NoRacer]
    /\ reqs = [q \in ReqSlots |-> NoReq]
    /\ sched = SchedIdle
    /\ schedule_store \in schedules
    /\ edit = EditIdle
    /\ clock = 0
    /\ fired = [u \in 1..Len(schedule_store) |-> 0]

ManualInit == ManualInitOn(InitialSchedules)

\* POST /save: the posted object replaces form_data.json (a missing cookie key
\* reads back as "")
ManualSave(cookie) ==
    /\ edit.pc = "idle"
    /\ saved' = [cookie |-> cookie]
    /\ UNCHANGED <<fa_vars, mr_vars, ck_vars, fn_vars>>

\* POST /start (time_limit=None): the form is saved (lines 633-642), the racer
\* gets the form's cookie (line 656)
ManualStart(cookie) ==
    /\ edit.pc = "idle"
    /\ StartAccepted(mr.running)
    /\ HasFreeSlot(rt, DOMAIN rt)
    /\ saved' = [cookie |-> cookie]
    /\ mr' = [mr EXCEPT !.running = TRUE, !.last_status_code = None,
                        !.status_code_count = 0,
                        !.streak_code = None, !.streak = 0]
    /\ rt' = [rt EXCEPT ![FreeSlot(rt, DOMAIN rt)] =
                 [pc |-> "begin", time_limit |-> NoTimeLimit, left |-> 0,
                  cookie |-> cookie]]
    /\ UNCHANGED <<reqs, sched, schedule_store, edit, clock, fired>>
    /\ UNCHANGED <<fa_vars, ck_vars, fn_vars>>

\* POST /stop saving the form without its cookie, as /start saves it
ManualStop_SavesForm ==
    /\ edit.pc = "idle"
    /\ mr' = [mr EXCEPT !.running = FALSE]
    /\ saved' = [cookie |-> ""]
    /\ UNCHANGED <<rt, reqs, sched, schedule_store, edit, clock, fired>>
    /\ UNCHANGED <<fa_vars, ck_vars, fn_vars>>

\* POST /stop
ManualStop ==
    /\ edit.pc = "idle"
    /\ mr' = [mr EXCEPT !.running = FALSE]
    /\ UNCHANGED <<rt, reqs, sched, schedule_store, edit, clock, fired>>
    /\ UNCHANGED <<fa_vars, ck_vars, fn_vars, saved>>

\* reservation_task lines 445-471: start_timestamp = time.time()
RtBegin(k) ==
    /\ k \in DOMAIN rt
    /\ rt[k].pc = "begin"
    /\ rt' = [rt EXCEPT ![k].pc = "loop", ![k].left = TicksOf(rt[k].time_limit)]
    /\ UNCHANGED <<mr, reqs, sched, schedule_store, edit, clock, fired>>
    /\ UNCHANGED <<fa_vars, ck_vars, fn_vars, saved>>

\* line 474: while running
RtLoop(k) ==
    /\ k \in DOMAIN rt
    /\ rt[k].pc = "loop"
    /\ rt' = [rt EXCEPT ![k] = IF mr.running THEN [@ EXCEPT !.pc = "body"] ELSE NoRacer]
    /\ UNCHANGED <<mr, reqs, sched, schedule_store, edit, clock, fired>>
    /\ UNCHANGED <<fa_vars, ck_vars, fn_vars, saved>>

\* RtBody without line 478: the loop breaks on the time limit and leaves
\* running as it is
RtBody_KeepsRunning(k) ==
    /\ k \in DOMAIN rt
    /\ rt[k].pc = "body"
    /\ IF TimeLimitReached(rt[k])
       THEN /\ rt' = [rt EXCEPT ![k] = NoRacer]
            /\ UNCHANGED <<mr, reqs>>
       ELSE /\ HasFreeSlot(reqs, ReqSlots)
            /\ UNCHANGED mr
            /\ reqs' = [reqs EXCEPT ![FreeSlot(reqs, ReqSlots)] =
                           [NoReq EXCEPT !.pc = "inflight", !.cookie = rt[k].cookie]]
            /\ rt' = [rt EXCEPT ![k].pc = "loop"]
    /\ UNCHANGED <<sched, schedule_store, edit, clock, fired>>
    /\ UNCHANGED <<fa_vars, ck_vars, fn_vars, saved>>

\* lines 476-492: the time limit check, then one request is dispatched and the
\* thread sleeps min_interval
RtBody(k) ==
    /\ k \in DOMAIN rt
    /\ rt[k].pc = "body"
    /\ IF TimeLimitReached(rt[k])
       THEN /\ mr' = [mr EXCEPT !.running = FALSE]
            /\ rt' = [rt EXCEPT ![k] = NoRacer]
            /\ UNCHANGED reqs
       ELSE /\ HasFreeSlot(reqs, ReqSlots)
            /\ UNCHANGED mr
            /\ reqs' = [reqs EXCEPT ![FreeSlot(reqs, ReqSlots)] =
                           [NoReq EXCEPT !.pc = "inflight", !.cookie = rt[k].cookie]]
            /\ rt' = [rt EXCEPT ![k].pc = "loop"]
    /\ UNCHANGED <<sched, schedule_store, edit, clock, fired>>
    /\ UNCHANGED <<fa_vars, ck_vars, fn_vars, saved>>

\* the responses received since the counters were last reset: the status of
\* the latest one and how many in a row had it (history, not program state)
Streak(g, r) ==
    [g EXCEPT !.streak_code = r.status_code,
              !.streak = IF r.status_code = g.streak_code THEN @ + 1 ELSE 1]

\* send_single_request lines 389-395: the POST returns; line 391 compares the
\* status with last_status_code, then line 392 reads status_code_count or
\* line 394 stores the new status. The threads of the requests in flight run
\* these lines without a lock.
ReqResponse(q, r) ==
    /\ reqs[q].pc = "inflight"
    /\ r.status_code = mr.last_status_code => mr.status_code_count < MaxCount
    /\ r.status_code = mr.streak_code => mr.streak < MaxCount
    /\ mr' = [Streak(mr, r) EXCEPT !.last_status_code = r.status_code]
    /\ reqs' = [reqs EXCEPT ![q] =
                   [pc |-> "classify", r |-> r, cookie |-> reqs[q].cookie,
                    n |-> IF r.status_code = mr.last_status_code
                          THEN mr.status_code_count + 1 ELSE 1]]
    /\ UNCHANGED <<rt, sched, schedule_store, edit, clock, fired>>
    /\ UNCHANGED <<fa_vars, ck_vars, fn_vars, saved>>

\* line 389 raises: lines 424-425
ReqException(q) ==
    /\ reqs[q].pc = "inflight"
    /\ reqs' = [reqs EXCEPT ![q] = NoReq]
    /\ UNCHANGED <<mr, rt, sched, schedule_store, edit, clock, fired>>
    /\ UNCHANGED <<fa_vars, ck_vars, fn_vars, saved>>

\* lines 409-413 with running assigned from the verdict
ClassifyRunning_Assign(running, r) == ~IsSuccessManual(r)

\* what lines 409-413 leave in running
ClassifyRunning(running, r) == IF IsSuccessManual(r) THEN FALSE ELSE running

\* lines 392 and 395 (status_code_count is stored) and lines 398-422
ReqClassify(q) ==
    /\ reqs[q].pc = "classify"
    /\ mr' = [mr EXCEPT !.status_code_count = reqs[q].n,
                        !.running = ClassifyRunning(@, reqs[q].r)]
    /\ reqs' = [reqs EXCEPT ![q] = NoReq]
    /\ UNCHANGED <<rt, sched, schedule_store, edit, clock, fired>>
    /\ UNCHANGED <<fa_vars, ck_vars, fn_vars, saved>>

\* schedule_monitor lines 507-511 (the file parses: no save is halfway)
SchedLoad ==
    /\ sched.pc = "load"
    /\ edit.pc /= "write"
    /\ sched' = [pc |-> "scan", schedules |-> schedule_store,
                 current_time |-> current_time_of(clock),
                 current_second |-> current_second_of(clock), i |-> 1]
    /\ UNCHANGED <<mr, rt, reqs, schedule_store, edit, clock, fired>>
    /\ UNCHANGED <<fa_vars, ck_vars, fn_vars, saved>>

\* line 521 without "and not running"
ShouldFire_IgnoreRunning(schedule, current_time, current_second, running) ==
    /\ schedule.enabled
    /\ schedule.trigger_time = current_time
    /\ current_second = 0

\* line 515 and line 521
ShouldFire(schedule, current_time, current_second, running) ==
    /\ schedule.enabled
    /\ schedule.trigger_time = current_time
    /\ current_second = 0
    /\ ~running

\* SchedScan switching off an entry it skips because a run is in progress
SchedScan_DisablesSkipped ==
    /\ sched.pc = "scan"
    /\ IF sched.i > Len(sched.schedules)
       THEN sched' = SchedIdle
       ELSE IF ShouldFire(sched.schedules[sched.i], sched.current_time,
                          sched.current_second, mr.running)
            THEN sched' = [sched EXCEPT !.pc = "fire"]
            ELSE IF ShouldFire(sched.schedules[sched.i], sched.current_time,
                               sched.current_second, FALSE)
                 THEN sched' = [sched EXCEPT !.pc = "disable"]
                 ELSE sched' = [sched EXCEPT !.i = @ + 1]
    /\ UNCHANGED <<mr, rt, reqs, schedule_store, edit, clock, fired>>
    /\ UNCHANGED <<fa_vars, ck_vars, fn_vars, saved>>

\* lines 513-521 for one entry, and line 555 at the end of the list
SchedScan ==
    /\ sched.pc = "scan"
    /\ IF sched.i > Len(sched.schedules)
       THEN sched' = SchedIdle
       ELSE IF ShouldFire(sched.schedules[sched.i], sched.current_time,
                          sched.current_second, mr.running)
            THEN sched' = [sched EXCEPT !.pc = "fire"]
            ELSE sched' = [sched EXCEPT !.i = @ + 1]
    /\ UNCHANGED <<mr, rt, reqs, schedule_store, edit, clock, fired>>
    /\ UNCHANGED <<fa_vars, ck_vars, fn_vars, saved>>

\* lines 525-549
SchedFire ==
    /\ sched.pc = "fire"
    /\ HasFreeSlot(rt, DOMAIN rt)
    /\ mr' = [mr EXCEPT !.running = TRUE, !.last_status_code = None,
                        !.status_code_count = 0,
                        !.streak_code = None, !.streak = 0]
    /\ rt' = [rt EXCEPT ![FreeSlot(rt, DOMAIN rt)] =
                 [pc |-> "begin", time_limit |-> SCHEDULE_TIME_LIMIT, left |-> 0,
                  cookie |-> saved.cookie]]
    /\ fired' = Bump(fired, sched.schedules[sched.i].uid)
    /\ sched' = [sched EXCEPT !.pc = "disable"]
    /\ UNCHANGED <<reqs, schedule_store, edit, clock>>
    /\ UNCHANGED <<fa_vars, ck_vars, fn_vars, saved>>

\* line 552 left out
Disabled_NoFlip(schedules, i) == schedules

\* line 552
Disabled(schedules, i) == [schedules EXCEPT ![i].enabled = FALSE]

\* lines 552-553
SchedDisable ==
    /\ sched.pc = "disable"
    /\ schedule_store' = Disabled(sched.schedules, sched.i)
    /\ sched' = [sched EXCEPT !.pc = "scan", !.schedules = Disabled(@, sched.i),
                              !.i = @ + 1]
    /\ UNCHANGED <<mr, rt, reqs, edit, clock, fired>>
    /\ UNCHANGED <<fa_vars, ck_vars, fn_vars, saved>>

\* POST /schedule/add, lines 710-717
AddLoad(m) ==
    /\ edit.pc = "idle"
    /\ Len(schedule_store) < MaxSchedules
    /\ Cardinality(DOMAIN fired) < MaxUid
    /\ LET u == Cardinality(DOMAIN fired) + 1
       IN /\ edit' = [pc |-> "save",
                      schedules |-> Append(schedule_store,
                          [trigger_time |-> m, enabled |-> TRUE, uid |-> u])]
          /\ fired' = [x \in 1..u |-> IF x = u THEN 0 ELSE fired[x]]
    /\ UNCHANGED <<mr, rt, reqs, sched, schedule_store, clock>>
    /\ UNCHANGED <<fa_vars, ck_vars, fn_vars, saved>>

\* POST /schedule/delete, lines 727-731 (an index out of range changes nothing)
DeleteLoad(index) ==
    /\ edit.pc = "idle"
    /\ 0 <= index /\ index < Len(schedule_store)
    /\ edit' = [pc |-> "save", schedules |-> Pop(schedule_store, index + 1)]
    /\ UNCHANGED <<mr, rt, reqs, sched, schedule_store, clock, fired>>
    /\ UNCHANGED <<fa_vars, ck_vars, fn_vars, saved>>

\* lines 718 and 732
EditSave ==
    /\ edit.pc = "save"
    /\ schedule_store' = edit.schedules
    /\ edit' = EditIdle
    /\ UNCHANGED <<mr, rt, reqs, sched, clock, fired>>
    /\ UNCHANGED <<fa_vars, ck_vars, fn_vars, saved>>

\* save_schedules line 178: open(SCHEDULE_FILE, "w") empties the file
EditTruncate ==
    /\ edit.pc = "save"
    /\ edit' = [edit EXCEPT !.pc = "write"]
    /\ UNCHANGED <<mr, rt, reqs, sched, schedule_store, clock, fired>>
    /\ UNCHANGED <<fa_vars, ck_vars, fn_vars, saved>>

\* save_schedules line 179: json.dump, and the file is closed
EditWrite ==
    /\ edit.pc = "write"
    /\ schedule_store' = edit.schedules
    /\ edit' = EditIdle
    /\ UNCHANGED <<mr, rt, reqs, sched, clock, fired>>
    /\ UNCHANGED <<fa_vars, ck_vars, fn_vars, saved>>

\* line 508 while a request handler is between lines 178 and 179: json.load
\* (line 167) raises JSONDecodeError on the emptied file; schedule_monitor has
\* no except clause, so the exception ends the thread
SchedLoadFails ==
    /\ sched.pc = "load"
    /\ edit.pc = "write"
    /\ sched' = [SchedIdle EXCEPT !.pc = "crashed"]
    /\ UNCHANGED <<mr, rt, reqs, schedule_store, edit, clock, fired>>
    /\ UNCHANGED <<fa_vars, ck_vars, fn_vars, saved>>

\* the wall clock advances by one tick
ManualTick ==
    /\ clock' = (clock + 1) % DayTicks
    /\ rt' = [k \in DOMAIN rt |->
                [rt[k] EXCEPT !.left = IF @ > 0 THEN @ - 1 ELSE 0]]
    /\ UNCHANGED <<mr, reqs, sched, schedule_store, edit, fired>>
    /\ UNCHANGED <<fa_vars, ck_vars, fn_vars, saved>>

\* reservation_task against an endpoint that cannot be reached: every POST raises
RacerUnreachableNext ==
    \/ \E k \in RestartRacers : RtBegin(k)
    \/ \E k \in RestartRacers : RtLoop(k)
    \/ \E k \in RestartRacers : RtBody(k)
    \/ \E q \in ReqSlots : ReqException(q)

RacerNextOn(responses) ==
    \/ RacerUnreachableNext
    \/ \E q \in ReqSlots, r \in responses : ReqResponse(q, r)
    \/ \E q \in ReqSlots : ReqClassify(q)

RacerNext == RacerNextOn(Responses)

\* an endpoint that answers with a success or not at all
SuccessOnly == {[status_code |-> HTTP_OK, text |-> "{}"]}

SchedulerNext ==
    \/ SchedLoad
    \/ SchedScan
    \/ SchedFire
    \/ SchedDisable

ScheduleEditsNext ==
    \/ ManualStart(InitialCookie)
    \/ ManualStop
    \/ RacerUnreachableNext
    \/ SchedulerNext
    \/ \E m \in Minutes : AddLoad(m)
    \/ \E index \in 0..(MaxSchedules - 1) : DeleteLoad(index)
    \/ EditSave
    \/ ManualTick

\* the scheduler and the schedule editor with save_schedules in its two steps
ScheduleFaultsNext ==
    \/ SchedulerNext
    \/ SchedLoadFails
    \/ RacerUnreachableNext
    \/ \E m \in Minutes : AddLoad(m)
    \/ \E index \in 0..(MaxSchedules - 1) : DeleteLoad(index)
    \/ EditTruncate
    \/ EditWrite
    \/ ManualTick

\* one run of reservation_task and its requests, nobody pressing a button
FireAndForgetNext ==
    \/ RacerNext
    \/ ManualTick

\* the racer alone: /start, /stop, reservation_task and its requests
ManualRacerNext ==
    \/ ManualStart(InitialCookie)
    \/ ManualStop
    \/ RacerNext
    \/ ManualTick

\* the same server when nobody edits the schedule list
ScheduleNext ==
    \/ ManualStart(InitialCookie)
    \/ ManualStop
    \/ RacerNextOn(SuccessOnly)
    \/ SchedulerNext
    \/ ManualTick

\* the racer and its requests while the user starts further runs with a newly
\* typed credential; nobody presses stop
RerunNext ==
    \/ ManualStart(TypedCookie)
    \/ RacerNext
    \/ ManualTick

\* the racer and its requests while the user stops and starts further runs
\* with a newly typed credential
RestartNext ==
    \/ RerunNext
    \/ ManualStop

\* both servers with their start and stop buttons while the site cannot be
\* reached: every GET and every POST raises (the two share form_data.json)
StartGateNext ==
    \/ \E t \in Threads, d \in PostDurations : FullStart(t, d, InitialCookie)
    \/ FullStop
    \/ \E t \in Threads : MtBegin(t)
    \/ \E t \in Threads : MtLoop(t)
    \/ \E t \in Threads : MtGet(t, "exception")
    \/ \E t \in Threads : MtExit(t)
    \/ ManualStart(TypedCookie)
    \/ ManualStop
    \/ RacerUnreachableNext

\* the next step of reservation_task thread k
RtStep(k) ==
    \/ RtBegin(k)
    \/ RtLoop(k)
    \/ RtBody(k)

\* the next step of send_single_request thread q when the endpoint answers
\* from responses
ReqStep(q, responses) ==
    \/ \E r \in responses : ReqResponse(q, r)
    \/ ReqException(q)
    \/ ReqClassify(q)

\* every live thread is scheduled again, every POST returns or raises within
\* its timeout (line 389), every sleep ends and the wall clock advances
ManualFairness ==
    /\ \A k \in Racers : WF_vars(RtStep(k))
    /\ \A q \in ReqSlots : WF_vars(ReqStep(q, SuccessOnly))
    /\ WF_vars(ManualTick)

\* the credentials a user types into the form
FormCookies == {TypedCookie}

\* the server with its racer and scheduler while the user starts, stops and
\* saves with either credential (the cookie checks are added by SpecCredential)
CredentialUseNext ==
    \/ \E cookie \in FormCookies : ManualStart(cookie)
    \/ \E cookie \in FormCookies : ManualSave(cookie)
    \/ ManualStop
    \/ RacerUnreachableNext
    \/ SchedulerNext

(***************************************************************************)
(* Cookie health monitor (ManualReserver.py 186-335, 758-834; the same     *)
(* code is in FullAutoReserver.py 79-228, 1415-1491)                       *)
(***************************************************************************)
CookieThreads == 1..MaxCookieThreads
Intervals == 0..MaxInterval

LOG_CAPACITY == 100    \* line 236: if len(cookie_invalid_log) > 100

\* outcomes of the account-info GET of check_cookie_validity
ValidationOutcomes == {HTTP_OK, 401, None}   \* None: requests.get raised

\* what one run of autologin.py --silent under subprocess.run can end in:
\* login_ok      auto_login wrote cookie.txt (autologin.py line 277), exit 0
\* login_failed  auto_login returned None: cookie.txt untouched, still exit 0
\* exit_nonzero  sys.exit(1) (line 387) or a crash: cookie.txt untouched
\* timeout       subprocess.run raises TimeoutExpired after 120 s
AutologinOutcomes == {"login_ok", "login_failed", "exit_nonzero", "timeout"}

NoFile == "<no file>"

NoCookieThread == [pc |-> "none", kind |-> "none", is_valid |-> FALSE,
                   status_code |-> None, relogins |-> 0, wait_left |-> 0,
                   autologin |-> ""]

Min(a, b) == IF a < b THEN a ELSE b

\* line 329, capped
wait_seconds_of(interval) == Min(interval * 60, MaxWaitSeconds)

\* lines 232-234: the entry of a failed validation (time: a logical timestamp)
LogEntry(n, status_code) == [time |-> n, reason |-> status_code]

\* the list after n failed validations and no eviction
FilledLog(n) == [j \in 1..n |-> LogEntry(j, 401)]

lg_vars == <<cookie_invalid_log, log_hist>>

\* the monitor of a process whose list already holds one of the given numbers
\* of entries and that finds cookie.txt as one of the given files
CookieInitOn(fills, files) ==
    /\ ck = [cookie_monitor_running |-> FALSE, cookie_monitor_interval |-> 5,
             checking |-> FALSE, valid |-> "None", message |-> "unchecked"]
    /\ cm = [t \in CookieThreads |-> NoCookieThread]
    /\ \E n \in fills :
          /\ cookie_invalid_log = FilledLog(n)
          /\ log_hist = [failed |-> FilledLog(n), now |-> n, left |-> MaxLogged]
    /\ cookie_file \in files

CookieInit == CookieInitOn({0}, {NoFile})

\* POST /cookie/monitor/start
CookieMonitorStart(interval) ==
    /\ ~ck.cookie_monitor_running
    /\ HasFreeSlot(cm, CookieThreads)
    /\ ck' = [ck EXCEPT !.cookie_monitor_running = TRUE,
                        !.cookie_monitor_interval = interval]
    /\ cm' = [cm EXCEPT ![FreeSlot(cm, CookieThreads)] =
                 [NoCookieThread EXCEPT !.pc = "loop", !.kind = "monitor"]]
    /\ UNCHANGED <<lg_vars, cookie_file>>
    /\ UNCHANGED <<fa_vars, mr_vars, fn_vars, saved>>

\* POST /cookie/monitor/stop
CookieMonitorStop ==
    /\ ck.cookie_monitor_running
    /\ ck' = [ck EXCEPT !.cookie_monitor_running = FALSE]
    /\ UNCHANGED <<cm, lg_vars, cookie_file>>
    /\ UNCHANGED <<fa_vars, mr_vars, fn_vars, saved>>

\* POST /cookie/check
CookieCheck ==
    /\ ~ck.checking
    /\ HasFreeSlot(cm, CookieThreads)
    /\ cm' = [cm EXCEPT ![FreeSlot(cm, CookieThreads)] =
                 [NoCookieThread EXCEPT !.pc = "check", !.kind = "manual"]]
    /\ UNCHANGED <<ck, lg_vars, cookie_file>>
    /\ UNCHANGED <<fa_vars, mr_vars, fn_vars, saved>>

\* POST /cookie/log/clear
CookieLogClear ==
    /\ cookie_invalid_log' = <<>>
    /\ log_hist' = [log_hist EXCEPT !.failed = <<>>]
    /\ UNCHANGED <<ck, cm, cookie_file>>
    /\ UNCHANGED <<fa_vars, mr_vars, fn_vars, saved>>

\* where a thread goes once check and recovery are over: the monitor loop
\* waits (lines 329-333), run_check returns
AfterCheck(th, interval) ==
    IF th.kind = "monitor"
    THEN [th EXCEPT !.pc = "wait", !.wait_left = wait_seconds_of(interval),
                    !.autologin = ""]
    ELSE NoCookieThread

\* line 320: while cookie_monitor_running
CmLoop(t) ==
    /\ cm[t].pc = "loop"
    /\ cm' = [cm EXCEPT ![t] = IF ck.cookie_monitor_running
                               THEN [@ EXCEPT !.pc = "check"] ELSE NoCookieThread]
    /\ UNCHANGED <<ck, lg_vars, cookie_file>>
    /\ UNCHANGED <<fa_vars, mr_vars, fn_vars, saved>>

\* check_cookie_validity lines 195-220: the flag is set, the stored cookie is
\* read, the GET is sent (an empty cookie returns False at once)
CmCheck(t) ==
    /\ cm[t].pc = "check"
    /\ IF saved.cookie = ""
       THEN /\ ck' = [ck EXCEPT !.checking = FALSE, !.valid = "False",
                                !.message = "no_cookie"]
            /\ cm' = [cm EXCEPT ![t].pc = "branch", ![t].is_valid = FALSE,
                                ![t].status_code = None, ![t].relogins = 0]
       ELSE /\ ck' = [ck EXCEPT !.checking = TRUE, !.message = "checking"]
            /\ cm' = [cm EXCEPT ![t].pc = "validate", ![t].status_code = None,
                                ![t].relogins = 0]
    /\ UNCHANGED <<lg_vars, cookie_file>>
    /\ UNCHANGED <<fa_vars, mr_vars, fn_vars, saved>>

\* the value check_cookie_validity returns for a response status
ValidOf(status_code) == status_code = HTTP_OK

\* lines 232-234: cookie_invalid_log.append(...)
Logged(log, entry) == Append(log, entry)

\* check_cookie_validity lines 216-234 and 242-249: the GET returns (or
\* raises); a non-200 status is appended to the list
CmValidate(t, o) ==
    /\ cm[t].pc = "validate"
    /\ o \notin {HTTP_OK, None} => log_hist.left > 0
    /\ CASE o = None ->
              /\ ck' = [ck EXCEPT !.checking = FALSE, !.valid = "False",
                                  !.message = "error"]
              /\ cm' = [cm EXCEPT ![t].pc = "branch", ![t].is_valid = FALSE,
                                  ![t].status_code = o]
              /\ UNCHANGED cookie_invalid_log
         [] ValidOf(o) ->
              /\ ck' = [ck EXCEPT !.checking = FALSE, !.valid = "True",
                                  !.message = "valid"]
              /\ cm' = [cm EXCEPT ![t].pc = "branch", ![t].is_valid = TRUE,
                                  ![t].status_code = o]
              /\ UNCHANGED cookie_invalid_log
         [] OTHER ->
              /\ ck' = [ck EXCEPT !.valid = "False", !.message = "invalid"]
              /\ cm' = [cm EXCEPT ![t].pc = "evict", ![t].is_valid = FALSE,
                                  ![t].status_code = o]
              /\ cookie_invalid_log' =
                     Logged(cookie_invalid_log, LogEntry(log_hist.now + 1, o))
    /\ log_hist' = IF o \notin {HTTP_OK, None}
                   THEN [failed |-> Append(log_hist.failed, LogEntry(log_hist.now + 1, o)),
                         now |-> log_hist.now + 1, left |-> log_hist.left - 1]
                   ELSE log_hist
    /\ UNCHANGED cookie_file
    /\ UNCHANGED <<fa_vars, mr_vars, fn_vars, saved>>

\* line 236: if len(cookie_invalid_log) > 100
OverCapacity(log) == Len(log) > LOG_CAPACITY

\* line 236, then lines 238-240 and 249 when the list is not over its capacity
CmEvict(t) ==
    /\ cm[t].pc = "evict"
    /\ IF OverCapacity(cookie_invalid_log)
       THEN /\ cm' = [cm EXCEPT ![t].pc = "pop"]
            /\ UNCHANGED ck
       ELSE /\ cm' = [cm EXCEPT ![t].pc = "branch"]
            /\ ck' = [ck EXCEPT !.checking = FALSE]
    /\ UNCHANGED <<lg_vars, cookie_file>>
    /\ UNCHANGED <<fa_vars, mr_vars, fn_vars, saved>>

\* line 237: cookie_invalid_log.pop(0), which raises IndexError on an empty
\* list (lines 242-247); then lines 238-240 and 249
CmPop(t) ==
    /\ cm[t].pc = "pop"
    /\ IF cookie_invalid_log = <<>>
       THEN /\ ck' = [ck EXCEPT !.checking = FALSE, !.valid = "False",
                                !.message = "error"]
            /\ UNCHANGED cookie_invalid_log
       ELSE /\ ck' = [ck EXCEPT !.checking = FALSE]
            /\ cookie_invalid_log' = Tail(cookie_invalid_log)
    /\ cm' = [cm EXCEPT ![t].pc = "branch"]
    /\ UNCHANGED <<log_hist, cookie_file>>
    /\ UNCHANGED <<fa_vars, mr_vars, fn_vars, saved>>

\* lines 325-326 without the test of is_valid
NeedsRelogin_Always(th) == TRUE

\* lines 325-326 (773-775 in run_check): if not is_valid: relogin_and_update_cookie()
NeedsRelogin(th) == ~th.is_valid

CmBranch(t) ==
    /\ cm[t].pc = "branch"
    /\ cm' = [cm EXCEPT ![t] = IF NeedsRelogin(@)
                               THEN [@ EXCEPT !.pc = "relogin", !.relogins = @ + 1]
                               ELSE AfterCheck(@, ck.cookie_monitor_interval)]
    /\ UNCHANGED <<ck, lg_vars, cookie_file>>
    /\ UNCHANGED <<fa_vars, mr_vars, fn_vars, saved>>

\* relogin_and_update_cookie lines 269-281 and 305-308: autologin.py runs; a
\* timeout raises and ends the call, a non-zero exit is only printed. A
\* successful login writes cookie.txt and the cookie of form_data.json
\* (autologin.py lines 276-303)
CmAutologin(t, o) ==
    /\ cm[t].pc = "relogin"
    /\ IF o = "timeout"
       THEN /\ ck' = [ck EXCEPT !.message = "relogin_failed"]
            /\ cm' = [cm EXCEPT ![t] = AfterCheck(@, ck.cookie_monitor_interval)]
            /\ UNCHANGED <<cookie_file, saved>>
       ELSE /\ cookie_file' = IF o = "login_ok" THEN FreshCookie ELSE cookie_file
            /\ saved' = IF o = "login_ok"
                        THEN [saved EXCEPT !.cookie = FreshCookie] ELSE saved
            /\ cm' = [cm EXCEPT ![t].pc = "readcookie", ![t].autologin = o]
            /\ UNCHANGED ck
    /\ UNCHANGED lg_vars
    /\ UNCHANGED <<fa_vars, mr_vars, fn_vars>>

\* lines 285-289: cookie.txt exists and holds a non-empty cookie
HasNewCookie(file) == file /= NoFile /\ file /= ""

\* lines 283-303: cookie.txt is read back and stored
CmReadCookie(t) ==
    /\ cm[t].pc = "readcookie"
    /\ IF HasNewCookie(cookie_file)
       THEN /\ saved' = [saved EXCEPT !.cookie = cookie_file]
            /\ ck' = [ck EXCEPT !.valid = "True", !.message = "relogin_ok"]
       ELSE /\ ck' = [ck EXCEPT !.message = "relogin_failed"]
            /\ UNCHANGED saved
    /\ cm' = [cm EXCEPT ![t] = AfterCheck(@, ck.cookie_monitor_interval)]
    /\ UNCHANGED <<lg_vars, cookie_file>>
    /\ UNCHANGED <<fa_vars, mr_vars, fn_vars>>

\* lines 330-333 without the test of line 331: the whole interval is slept
CmWait_IgnoresStop(t) ==
    /\ cm[t].pc = "wait"
    /\ cm' = [cm EXCEPT ![t] = IF @.wait_left = 0
                               THEN [@ EXCEPT !.pc = "loop"]
                               ELSE [@ EXCEPT !.wait_left = @ - 1]]
    /\ UNCHANGED <<ck, lg_vars, cookie_file>>
    /\ UNCHANGED <<fa_vars, mr_vars, fn_vars, saved>>

\* lines 330-333: one turn of the wait loop
CmWait(t) ==
    /\ cm[t].pc = "wait"
    /\ cm' = [cm EXCEPT ![t] = IF @.wait_left = 0 \/ ~ck.cookie_monitor_running
                               THEN [@ EXCEPT !.pc = "loop", !.wait_left = 0]
                               ELSE [@ EXCEPT !.wait_left = @ - 1]]
    /\ UNCHANGED <<ck, lg_vars, cookie_file>>
    /\ UNCHANGED <<fa_vars, mr_vars, fn_vars, saved>>

\* one validation followed, when it failed, by one recovery
\* check_cookie_validity and relogin_and_update_cookie against a server that
\* answers the validation with one of validations and a login that ends in one
\* of logins, while the list stays within its capacity
CheckStepsOn(validations, logins) ==
    \/ \E t \in CookieThreads : CmCheck(t)
    \/ \E t \in CookieThreads, o \in validations : CmValidate(t, o)
    \/ \E t \in CookieThreads : CmEvict(t)
    \/ \E t \in CookieThreads : CmBranch(t)
    \/ \E t \in CookieThreads, o \in logins : CmAutologin(t, o)
    \/ \E t \in CookieThreads : CmReadCookie(t)

CheckNext ==
    \/ CheckStepsOn(ValidationOutcomes, AutologinOutcomes)
    \/ \E t \in CookieThreads : CmPop(t)

CookieNext ==
    \/ \E interval \in Intervals : CookieMonitorStart(interval)
    \/ CookieMonitorStop
    \/ CookieCheck
    \/ \E t \in CookieThreads : CmLoop(t)
    \/ CheckStepsOn(ValidationOutcomes, AutologinOutcomes)
    \/ \E t \in CookieThreads : CmWait(t)

\* manual checks and the history page's clear button
CookieLogNext ==
    \/ CookieCheck
    \/ CheckNext
    \/ CookieLogClear

\* ManualReserver.py as a whole, as far as the credential goes: the server,
\* its racer, its scheduler and manual cookie checks of a session that has
\* expired (every validation is answered 401, every login succeeds)
CredentialNext ==
    \/ CredentialUseNext
    \/ CookieCheck
    \/ CheckStepsOn({401}, {"login_ok"})

(***************************************************************************)
(* adjust_time_for_post (ManualReserver.py 95-127, FullAutoReserver.py      *)
(* 295-316) and the availability scan of monitor_task (352-380)             *)
(***************************************************************************)
\* A string is a sequence of characters. Besides the ASCII digits the model
\* has one more decimal digit (a full-width one), one character str.isdigit()
\* accepts and int() rejects (a superscript two), and two non-digits.
AsciiDigits == {"0", "1", "2", "3", "4", "5", "6", "7", "8", "9"}
FullWidthOne == "fullwidth 1"
SuperscriptTwo == "superscript 2"
Chars == AsciiDigits \cup {FullWidthOne, SuperscriptTwo, "a", "-"}

\* the characters int() reads as a decimal digit, and their values
IsDecimal(ch) == ch \in AsciiDigits \cup {FullWidthOne}
DigitValue(ch) ==
    CASE ch = "0" -> 0 [] ch = "1" -> 1 [] ch = "2" -> 2 [] ch = "3" -> 3
      [] ch = "4" -> 4 [] ch = "5" -> 5 [] ch = "6" -> 6 [] ch = "7" -> 7
      [] ch = "8" -> 8 [] ch = "9" -> 9 [] ch = FullWidthOne -> 1

DigitChar(d) == <<"0", "1", "2", "3", "4", "5", "6", "7", "8", "9">>[d + 1]

\* str.isdigit(): at least one character, and every character a digit
\* (the superscripts count as digits)
isdigit(t) ==
    /\ Len(t) > 0
    /\ \A j \in 1..Len(t) : IsDecimal(t[j]) \/ t[j] = SuperscriptTwo

\* int(s) of a two-character string that passed isdigit(): a number, or a
\* ValueError
CanInt(s) == \A j \in 1..Len(s) : IsDecimal(s[j])
int2(s) == 10 * DigitValue(s[1]) + DigitValue(s[2])

\* str(n) for n >= 0
RECURSIVE Digits(_)
Digits(n) == IF n < 10 THEN <<DigitChar(n)>>
             ELSE Digits(n \div 10) \o <<DigitChar(n % 10)>>

\* f"{n:02d}": the sign and the digits, zero-padded to two characters
Format02(n) ==
    LET body == IF n < 0 THEN <<"-">> \o Digits(-n) ELSE Digits(n)
    IN IF Len(body) < 2 THEN <<"0">> \o body ELSE body

Venues == {"H1H9", "H5H0"}

\* adjustments.get(pavilion, 0)
OffsetOf(adjustments, pavilion) ==
    IF pavilion \in DOMAIN adjustments THEN adjustments[pavilion] ELSE 0

\* line 120 without the reduction modulo one day
WrapDay_NoWrap(total) == total

\* line 120: total %= 24 * 60 (Python: the result has the sign of the divisor)
WrapDay(total) == total % (24 * 60)

\* adjust_time_for_post: the returned string, whether the offset table was
\* loaded, and whether the call raised (int() on a character it rejects)
adjust_time_for_post(adjustments, pavilion, t) ==
    IF ~isdigit(t) \/ Len(t) /= 4
    THEN [raised |-> FALSE, consulted |-> FALSE, value |-> t]
    ELSE IF ~CanInt(t)
    THEN [raised |-> TRUE, consulted |-> TRUE, value |-> <<>>]
    ELSE LET offset == OffsetOf(adjustments, pavilion)
             hh == int2(SubSeq(t, 1, 2))
             mm == int2(SubSeq(t, 3, 4))
             total == WrapDay(hh * 60 + mm + offset)
             new_hh == total \div 60
             new_mm == total % 60
         IN [raised |-> FALSE, consulted |-> TRUE,
             value |-> Format02(new_hh) \o Format02(new_mm)]

\* the arguments the calls are tried on
Hours == 0..23
MinutesOfHour == 0..59
HHMM(hh, mm) == Format02(hh) \o Format02(mm)
Offsets == {k * 1440 + o : k \in -1..1, o \in (-MaxOffset)..MaxOffset}
MalformedTimes ==
    {<<>>, <<"1", "2", "3">>, <<"1", "2", "3", "4", "5">>,
     <<"a", "a", "a", "a">>, <<"1", "2", "a", "4">>, <<"-", "1", "2", "3">>,
     <<"1", "2", SuperscriptTwo, "4">>}
AdjustmentTables ==
    {[v \in {"H1H9"} |-> o] : o \in Offsets} \cup {[v \in {} |-> 0]}

AdjIdle == [pc |-> "idle"]
ScanIdle == [pc |-> "idle"]
FnIdle == adj = AdjIdle /\ scan = ScanIdle

\* a call about to be made (hh and mm: the time of day t was written from, or
\* -1 for a malformed t)
AdjustInit ==
    \E adjustments \in AdjustmentTables, pavilion \in Venues :
       \/ \E hh \in Hours, mm \in MinutesOfHour :
             adj = [pc |-> "call", adjustments |-> adjustments, pavilion |-> pavilion,
                    t |-> HHMM(hh, mm), hh |-> hh, mm |-> mm]
       \/ \E t \in MalformedTimes :
             adj = [pc |-> "call", adjustments |-> adjustments, pavilion |-> pavilion,
                    t |-> t, hh |-> -1, mm |-> -1]

AdjustCall ==
    /\ adj.pc = "call"
    /\ adj' = [pc |-> "done", adjustments |-> adj.adjustments,
               pavilion |-> adj.pavilion, t |-> adj.t, hh |-> adj.hh, mm |-> adj.mm,
               result |-> adjust_time_for_post(adj.adjustments, adj.pavilion, adj.t)]
    /\ UNCHANGED <<fa_vars, mr_vars, ck_vars, saved, scan>>

AdjustNext == AdjustCall

(***************************************************************************)
(* adjustments/adjustments.py: the calibration tool                        *)
(***************************************************************************)
PROBE_STEP == 5     \* line 41: range(0, 35, 5)
PROBE_STOP == 35

\* the offsets test_pavilion tries
Probes == {k \in 0..(PROBE_STOP - 1) : k % PROBE_STEP = 0}

\* datetime.strptime(time_str, "%H%M"): a time on 1900-01-01 (day 0)
strptime(time_str) ==
    [day |-> 0, hour |-> int2(SubSeq(time_str, 1, 2)),
     minute |-> int2(SubSeq(time_str, 3, 4))]

\* t - datetime.timedelta(minutes=m): the date carries, the time of day stays
\* within 00:00..23:59
MinusMinutes(t, m) ==
    LET since == (t.day * 24 + t.hour) * 60 + t.minute - m
        day == IF since >= 0 THEN since \div (24 * 60)
               ELSE -((-since + 24 * 60 - 1) \div (24 * 60))
        rest == since - day * 24 * 60
    IN [day |-> day, hour |-> rest \div 60, minute |-> rest % 60]

\* t.strftime("%H%M")
strftime(t) == Format02(t.hour) \o Format02(t.minute)

\* lines 31-35
adjust_time_str(time_str, offset_minutes) ==
    strftime(MinusMinutes(strptime(time_str), offset_minutes))

\* line 57 returning the probe as it is
RecordedOffset_Unsigned(offset) == offset

\* line 57: return -offset, the value stored in adjustments.json (line 98)
RecordedOffset(offset) == -offset

\* test_pavilion is about to try one probe on a venue's base time
CalibrateInit ==
    \E pavilion \in Venues, hh \in Hours, mm \in MinutesOfHour, offset \in Probes :
        adj = [pc |-> "probe", pavilion |-> pavilion, t |-> HHMM(hh, mm),
               offset |-> offset]

\* lines 42-57 when the probe is answered 422, then adjust_time_for_post of
\* the servers on the table the tool wrote
CalibrateProbe ==
    /\ adj.pc = "probe"
    /\ LET adjustments == [v \in {adj.pavilion} |-> RecordedOffset(adj.offset)]
       IN adj' = [pc |-> "probed", pavilion |-> adj.pavilion, t |-> adj.t,
                  offset |-> adj.offset,
                  adjusted_time |-> adjust_time_str(adj.t, adj.offset),
                  adjustments |-> adjustments,
                  posted |-> adjust_time_for_post(adjustments, adj.pavilion, adj.t)]
    /\ UNCHANGED <<fa_vars, mr_vars, ck_vars, saved, scan>>

CalibrateNext == CalibrateProbe

\* Availability snapshots: per venue the list of its slots, t the time of the
\* slot and s the number of free places
SlotTimes == {HHMM(18, 45), HHMM(19, 0), HHMM(0, 5)}
Slots == [t : SlotTimes, s : {0, 3}]
SlotLists == UNION {[1..n -> Slots] : n \in 0..MaxSlots}
Snapshots == UNION {[V -> SlotLists] : V \in SUBSET Venues}
PavilionLists == UNION {[1..n -> Venues] : n \in 0..MaxVenues}
ScanAdjustments == [v \in {"H1H9"} |-> -10]

\* lines 359-362: the first slot of the venue with s > 0, as its index (0: none)
RECURSIVE FirstFree(_, _)
FirstFree(slots, j) ==
    IF j > Len(slots) THEN 0
    ELSE IF slots[j].s > 0 THEN j
    ELSE FirstFree(slots, j + 1)

\* lines 359-362 scanning the slots from the last one
RECURSIVE FindTarget_LastWins(_, _, _)
FindTarget_LastWins(pavilion_ids, data, i) ==
    IF i > Len(pavilion_ids) THEN <<>>
    ELSE LET pid == pavilion_ids[i]
             js == IF pid \in DOMAIN data
                   THEN {j \in 1..Len(data[pid]) : data[pid][j].s > 0} ELSE {}
         IN IF js /= {}
            THEN <<pid, data[pid][CHOOSE j \in js : \A x \in js : x <= j].t>>
            ELSE FindTarget_LastWins(pavilion_ids, data, i + 1)

\* lines 353-364: found_target, <<>> for None
RECURSIVE FindTarget(_, _, _)
FindTarget(pavilion_ids, data, i) ==
    IF i > Len(pavilion_ids) THEN <<>>
    ELSE LET pid == pavilion_ids[i]
             j == IF pid \in DOMAIN data THEN FirstFree(data[pid], 1) ELSE 0
         IN IF j > 0 THEN <<pid, data[pid][j].t>>
            ELSE FindTarget(pavilion_ids, data, i + 1)

\* lines 374-380: the payload of the racer's requests
Payload(adjustments, found_target) ==
    [event_code |-> found_target[1],
     start_time |-> adjust_time_for_post(adjustments, found_target[1],
                                         found_target[2]).value]

NoPayload == [event_code |-> "", start_time |-> <<>>]

\* a snapshot the GET has just returned
ScanInit ==
    \E pavilion_ids \in PavilionLists, data \in Snapshots :
        scan = [pc |-> "scan", pavilion_ids |-> pavilion_ids, data |-> data]

\* lines 352-380
MtScan ==
    /\ scan.pc = "scan"
    /\ LET found_target == FindTarget(scan.pavilion_ids, scan.data, 1)
       IN scan' = [pc |-> IF found_target /= <<>> THEN "posting" ELSE "no_vacancy",
                   pavilion_ids |-> scan.pavilion_ids, data |-> scan.data,
                   found_target |-> found_target,
                   payload |-> IF found_target /= <<>>
                               THEN Payload(ScanAdjustments, found_target)
                               ELSE NoPayload]
    /\ UNCHANGED <<fa_vars, mr_vars, ck_vars, saved, adj>>

ScanNext == MtScan

(***************************************************************************)
(* Specifications                                                          *)
(***************************************************************************)
ManualIdle == ManualInitOn({<<>>})

InitFull == FullInit /\ ManualIdle /\ CookieInit /\ SavedInit /\ FnIdle

SpecFull == InitFull /\ [][FullNext]_vars

InitFullStop == InitFull

SpecFullStop == InitFullStop /\ [][FullStopNext]_vars /\ FullFairness

\* /start has just been accepted with the stored credential (lines 1327-1348)
InitFullRestart ==
    /\ ManualIdle /\ CookieInit /\ SavedInit /\ FnIdle
    /\ fa = [running |-> TRUE, last_status_code |-> None, status_code_count |-> 0,
             no_vacancy_count |-> 0, current_state |-> "starting", stopped |-> FALSE]
    /\ \E d \in PostDurations :
          mt = [t \in Threads |->
                  IF t = 1
                  THEN [NoThread EXCEPT !.pc = "begin", !.post_duration = d,
                                        !.cookie = InitialCookie]
                  ELSE NoThread]

SpecFullRestart == InitFullRestart /\ [][FullRestartNext]_vars

InitManualRacer == FullInit /\ ManualIdle /\ CookieInit /\ SavedInit /\ FnIdle

SpecManualRacer == InitManualRacer /\ [][ManualRacerNext]_vars

InitSchedule == FullInit /\ ManualInit /\ CookieInit /\ SavedInit /\ FnIdle

SpecSchedule == InitSchedule /\ [][ScheduleNext]_vars

InitScheduleEdits ==
    /\ FullInit /\ ManualInitOn({s \in InitialSchedules : Len(s) <= 1})
    /\ CookieInit /\ SavedInit /\ FnIdle

SpecScheduleEdits == InitScheduleEdits /\ [][ScheduleEditsNext]_vars

InitCookie == FullInit /\ ManualIdle /\ CookieInit /\ SavedInit /\ FnIdle

SpecCookie == InitCookie /\ [][CookieNext]_vars

\* reservation_task called directly, as a caller would after setting running
TimeLimits == {NoTimeLimit, 0, SCHEDULE_TIME_LIMIT}

ReservationTaskInit ==
    /\ mr = [running |-> TRUE, last_status_code |-> None, status_code_count |-> 0,
             streak_code |-> None, streak |-> 0]
    /\ \E time_limit \in TimeLimits :
          rt = [k \in Racers |-> IF k = 1
                                 THEN [pc |-> "begin", time_limit |-> time_limit, left |-> 0,
                                       cookie |-> InitialCookie]
                                 ELSE NoRacer]
    /\ reqs = [q \in ReqSlots |-> NoReq]
    /\ sched = SchedIdle
    /\ schedule_store = <<>>
    /\ edit = EditIdle
    /\ clock = 0
    /\ fired = <<>>

InitReservationTask ==
    FullInit /\ ReservationTaskInit /\ CookieInit /\ SavedInit /\ FnIdle

SpecReservationTask == InitReservationTask /\ [][ManualRacerNext]_vars

InitFireAndForget == InitReservationTask

\* /start has just been accepted with the stored credential (lines 633-658)
InitRerun ==
    /\ FullInit /\ CookieInit /\ SavedInit /\ FnIdle
    /\ mr = [running |-> TRUE, last_status_code |-> None, status_code_count |-> 0,
             streak_code |-> None, streak |-> 0]
    /\ rt = [k \in RestartRacers |->
                IF k = 1
                THEN [pc |-> "begin", time_limit |-> NoTimeLimit, left |-> 0,
                      cookie |-> InitialCookie]
                ELSE NoRacer]
    /\ reqs = [q \in ReqSlots |-> NoReq]
    /\ sched = SchedIdle
    /\ schedule_store = <<>>
    /\ edit = EditIdle
    /\ clock = 0
    /\ fired = <<>>

SpecRerun == InitRerun /\ [][RerunNext]_vars

InitStartGate == InitFull

SpecStartGate == InitStartGate /\ [][StartGateNext]_vars

InitRestart == InitRerun

SpecRestart == InitRestart /\ [][RestartNext]_vars

SpecFireAndForget == InitFireAndForget /\ [][FireAndForgetNext]_vars

\* the cookie monitor of a process whose list is empty or full and that may
\* find an old cookie.txt, with manual checks and the clear button
InitCookieLog ==
    /\ FullInit /\ ManualIdle
    /\ CookieInitOn({0, LOG_CAPACITY}, {NoFile, StaleCookie})
    /\ SavedInit /\ FnIdle

SpecCookieLog == InitCookieLog /\ [][CookieLogNext]_vars

\* scheduled_tasks.json is empty at startup
InitScheduleFaults ==
    FullInit /\ ManualInitOn({<<>>}) /\ CookieInit /\ SavedInit /\ FnIdle

SpecScheduleFaults == InitScheduleFaults /\ [][ScheduleFaultsNext]_vars

\* One schedule due in the first minute
InitCredential ==
    /\ FullInit
    /\ ManualInitOn({<<[trigger_time |-> 0, enabled |-> TRUE, uid |-> 1]>>})
    /\ CookieInit
    /\ SavedInit
    /\ FnIdle

SpecCredential == InitCredential /\ [][CredentialNext]_vars

\* One schedule due in the first minute, start and stop buttons in use
InitScheduleDue == InitCredential

SpecScheduleDue == InitScheduleDue /\ [][ScheduleNext]_vars

InitScheduledRun == InitCredential

SpecScheduledRun == InitScheduledRun /\ [][ScheduleNext]_vars /\ ManualFairness

\* single calls of adjust_time_for_post
InitAdjust ==
    /\ FullInit /\ ManualIdle /\ CookieInit /\ SavedInit
    /\ AdjustInit /\ scan = ScanIdle

SpecAdjust == InitAdjust /\ [][AdjustNext]_vars

\* single probes of the calibration tool
InitCalibrate ==
    /\ FullInit /\ ManualIdle /\ CookieInit /\ SavedInit
    /\ CalibrateInit /\ scan = ScanIdle

SpecCalibrate == InitCalibrate /\ [][CalibrateNext]_vars

\* single availability scans of monitor_task
InitScan ==
    /\ FullInit /\ ManualIdle /\ CookieInit /\ SavedInit
    /\ adj = AdjIdle /\ ScanInit

SpecScan == InitScan /\ [][ScanNext]_vars

(***************************************************************************)
(* Properties                                                              *)
(***************************************************************************)

\* C1: at most one monitor_task thread is inside its polling loop at any time.
InLoop(th) == th.pc \in {"loop", "get", "postloop", "post", "postwait", "postend"}

C1_AtMostOneRacer == Cardinality({t \in Threads : InLoop(mt[t])}) <= 1

\* C2: running == False implies current_state is idle or success.
C2_NotRunningIsIdleOrSuccess ==
    ~fa.running => fa.current_state \in {"idle", "success"}

\* C3: a POST answered 200 with body {} makes the thread clear running, set
\* current_state to success and end; it issues no further GET or POST and does
\* not write monitoring or idle.
C3_SuccessEndsRun ==
    [][\A t \in Threads :
        /\ (/\ mt[t].pc = "post"
            /\ mt'[t].pc /= "post"
            /\ mt'[t].r = [status_code |-> 200, text |-> "{}"])
           => mt'[t].pc = "success_flag"
        /\ (mt[t].pc = "success_flag" /\ mt'[t].pc /= "success_flag")
           => /\ ~fa'.running
              /\ fa'.current_state = fa.current_state
              /\ mt'[t].pc = "success_state"
        /\ (mt[t].pc = "success_state" /\ mt'[t].pc /= "success_state")
           => /\ fa'.current_state = "success"
              /\ fa'.running = fa.running
              /\ mt'[t].pc = "none"]_vars

C3_Witness ==
    /\ fa.current_state = "success"
    /\ ~fa.running
    /\ \A t \in Threads : mt[t].pc = "none"

\* C4: once current_state = success with running = False, current_state stays
\* success until a start request is accepted (the only step that sets running).
C4_SuccessIsIrreversible ==
    [][(fa.current_state = "success" /\ ~fa.running)
       => (fa'.current_state = "success" \/ fa'.running)]_vars

\* C5: classifying a 200/{} response leaves running False, and no step of a
\* send_single_request thread ever turns running from False to True.
C5_SuccessClearsRunning ==
    [][\A q \in ReqSlots :
        /\ (/\ reqs[q].pc = "classify"
            /\ reqs'[q].pc /= "classify"
            /\ reqs[q].r = [status_code |-> 200, text |-> "{}"])
           => ~mr'.running
        /\ (reqs[q].pc \in {"inflight", "classify"} /\ reqs'[q] /= reqs[q])
           => (mr'.running => mr.running)]_vars

C5_Witness ==
    /\ mr.running
    /\ \E q1 \in ReqSlots, q2 \in ReqSlots :
          /\ reqs[q1].pc = "classify"
          /\ reqs[q1].r = [status_code |-> 200, text |-> "{}"]
          /\ reqs[q2].pc = "inflight"

\* C6: a racer whose duration budget is 0 dispatches no request and ends at
\* once as exhausted (reservation_task with time_limit = 0).
C6_ZeroBudgetIssuesNothing ==
    [][\A k \in Racers :
        (rt[k].pc = "body" /\ rt[k].time_limit = 0 /\ rt'[k].pc /= "body")
        => /\ reqs' = reqs
           /\ rt'[k].pc = "none"
           /\ ~mr'.running]_vars

\* C7: schedule_monitor starts a racer for one schedule entry at most once,
\* whatever /schedule/add and /schedule/delete do in between.
C7_EntryFiresAtMostOnce == \A u \in DOMAIN fired : fired[u] <= 1

\* C8: with no edits of the list, an entry has started at most one racer, and
\* once it has, it is stored disabled (or is being disabled by the tick that
\* fired it), so later observations of second 0 skip it.
C8_OneFirePerMinute ==
    \A i \in 1..Len(schedule_store) :
        LET e == schedule_store[i] IN
        /\ fired[e.uid] <= 1
        /\ e.enabled => (fired[e.uid] = 0 \/ (sched.pc = "disable" /\ sched.i = i))
        /\ ~e.enabled => fired[e.uid] = 1

C8_Witness ==
    /\ sched.pc = "scan"
    /\ sched.current_second = 0
    /\ ~mr.running
    /\ \E i \in 1..Len(sched.schedules) :
          /\ sched.i = i
          /\ sched.schedules[i].trigger_time = sched.current_time
          /\ ~sched.schedules[i].enabled
          /\ fired[sched.schedules[i].uid] = 1

\* C9: schedule_monitor starts a racer only for an enabled entry whose
\* trigger_time is the sampled minute, at second 0, with running False; the
\* racer gets time_limit 60; the entry is written disabled to the store before
\* the thread loads the list again.
C9_FireConditionsAndPersist ==
    [][/\ (sched.pc = "load" /\ sched'.pc /= "load")
          => /\ sched'.current_time = clock \div TicksPerMinute
             /\ sched'.current_second = (clock % TicksPerMinute) * (60 \div TicksPerMinute)
       /\ (sched.pc /= "fire" /\ sched'.pc = "fire")
          => /\ sched.pc = "scan"
             /\ sched.schedules[sched.i].enabled
             /\ sched.schedules[sched.i].trigger_time = sched.current_time
             /\ sched.current_second = 0
             /\ ~mr.running
       /\ (\E k \in Racers : rt[k].pc = "none" /\ rt'[k].pc = "begin"
                             /\ rt'[k].time_limit /= NoTimeLimit)
          => /\ sched.pc = "fire"
             /\ sched'.pc = "disable"
             /\ \A k \in Racers : (rt[k].pc = "none" /\ rt'[k].pc = "begin")
                                   => rt'[k].time_limit = 60
       /\ (sched.pc = "fire" /\ sched' /= sched)
          => /\ sched'.pc = "disable"
             /\ mr'.running
             /\ \E k \in Racers : rt[k].pc = "none" /\ rt'[k].pc = "begin"
       /\ (sched.pc = "disable" /\ sched' /= sched)
          => /\ Len(schedule_store') = Len(sched.schedules)
             /\ ~schedule_store'[sched.i].enabled
             /\ schedule_store'[sched.i].uid = sched.schedules[sched.i].uid
       /\ (sched.pc /= "load" /\ sched'.pc = "load") => sched.pc = "scan"]_vars

C9_Witness ==
    /\ sched.pc = "scan"
    /\ sched.i > 1
    /\ ~schedule_store[sched.i - 1].enabled
    /\ \E k \in Racers : rt[k].pc = "begin" /\ rt[k].time_limit = 60

\* C10: in cookie_monitor_loop a validation that returned a non-200 status has
\* been followed by exactly one relogin_and_update_cookie call when the thread
\* waits for, or is about to start, the next validation; one that returned 200
\* by none.
C10_OneReloginPerFailedCheck ==
    \A t \in CookieThreads :
        (cm[t].kind = "monitor" /\ cm[t].pc \in {"wait", "loop", "check"})
        => /\ cm[t].status_code \notin {200, None} => cm[t].relogins = 1
           /\ cm[t].status_code = 200 => cm[t].relogins = 0

C10_Witness ==
    \E t \in CookieThreads :
        /\ cm[t].kind = "monitor"
        /\ cm[t].pc = "wait"
        /\ cm[t].status_code = 401
        /\ cm[t].relogins = 1

\* C11: whenever no validation is between its append and its eviction, the
\* list holds exactly the failed (non-200) validations since it was last
\* cleared, in order, or the newest 100 of them: one entry per failed
\* validation, none for a 200, at most 100 entries, the oldest evicted first.
LastN(s, n) == SubSeq(s, Len(s) - n + 1, Len(s))

C11_LogKeepsNewestFailures ==
    (\A t \in CookieThreads : cm[t].pc \notin {"evict", "pop"})
    => cookie_invalid_log =
           LastN(log_hist.failed, Min(LOG_CAPACITY, Len(log_hist.failed)))

\* C12: a relogin_and_update_cookie call whose autologin.py run did not log in
\* (it timed out, exited non-zero or produced no fresh cookie) leaves the stored
\* credential as it was and leaves the failure message in cookie_status.
C12_FailedReloginKeepsCredential ==
    [][\A t \in CookieThreads :
          (\/ cm[t].pc = "readcookie" /\ cm'[t].pc /= "readcookie"
                                      /\ cm[t].autologin /= "login_ok"
           \/ cm[t].pc = "relogin" /\ cm'[t].pc \notin {"relogin", "readcookie"})
          => (saved' = saved /\ ck'.message = "relogin_failed")]_vars

\* C13: at most one check_cookie_validity call (started by /cookie/check or by
\* the monitor loop) is in progress at any time.
Validating(th) == th.pc \in {"validate", "evict", "pop"}

C13_ValidationsNeverOverlap ==
    Cardinality({t \in CookieThreads : Validating(cm[t])}) <= 1

\* C14: for a valid HHMM string written from hh and mm, and the offset o the
\* table holds for the venue (0 without an entry), adjust_time_for_post
\* returns four ASCII digits HHMM with 00 <= HH <= 23, 00 <= MM <= 59 and
\* 60*HH + MM congruent to 60*hh + mm + o modulo 1440.
AsciiValue(ch) == CHOOSE d \in 0..9 : DigitChar(d) = ch

ConfiguredOffset ==
    IF adj.pavilion \in DOMAIN adj.adjustments THEN adj.adjustments[adj.pavilion] ELSE 0

C14_AdjustWrapsAroundMidnight ==
    (adj.pc = "done" /\ adj.hh >= 0)
    => /\ ~adj.result.raised
       /\ Len(adj.result.value) = 4
       /\ \A j \in 1..4 : adj.result.value[j] \in AsciiDigits
       /\ LET v == adj.result.value
              H == 10 * AsciiValue(v[1]) + AsciiValue(v[2])
              M == 10 * AsciiValue(v[3]) + AsciiValue(v[4])
          IN /\ H \in 0..23
             /\ M \in 0..59
             /\ \E k \in -3..3 :
                   60 * H + M = 60 * adj.hh + adj.mm + ConfiguredOffset + 1440 * k

C14_Witness ==
    /\ adj.pc = "done"
    /\ adj.t = <<"0", "0", "0", "5">>
    /\ adj.pavilion = "H1H9"
    /\ ConfiguredOffset = -10
    /\ adj.result.value = <<"2", "3", "5", "5">>

\* C15: for an input that is not exactly four decimal digits (wrong length, or
\* a character that is not a decimal digit) adjust_time_for_post returns the
\* input unchanged, does not load the offset table and does not raise.
FourDigits(t) == Len(t) = 4 /\ \A j \in 1..4 : IsDecimal(t[j])

C15_MalformedTimeIsReturned ==
    (adj.pc = "done" /\ ~FourDigits(adj.t))
    => /\ ~adj.result.raised
       /\ ~adj.result.consulted
       /\ adj.result.value = adj.t

\* C16: the scan chooses the first slot with a positive count, going through
\* the tracked venues in their configured order and through each venue's slots
\* in the order of the snapshot; the payload carries that venue as event_code
\* and the offset-adjusted time of that slot as start_time. Without such a slot
\* nothing is chosen.
FreePositions ==
    {p \in (1..Len(scan.pavilion_ids)) \X (1..MaxSlots) :
        /\ scan.pavilion_ids[p[1]] \in DOMAIN scan.data
        /\ p[2] <= Len(scan.data[scan.pavilion_ids[p[1]]])
        /\ scan.data[scan.pavilion_ids[p[1]]][p[2]].s > 0}

Before(p, q) == p[1] < q[1] \/ (p[1] = q[1] /\ p[2] < q[2])

\* the times of SlotTimes moved by the -10 minutes configured for H1H9
ExpectedStart(venue, t) ==
    IF venue /= "H1H9" THEN t
    ELSE CASE t = <<"1", "8", "4", "5">> -> <<"1", "8", "3", "5">>
           [] t = <<"1", "9", "0", "0">> -> <<"1", "8", "5", "0">>
           [] t = <<"0", "0", "0", "5">> -> <<"2", "3", "5", "5">>

C16_FirstFreeSlotIsTarget ==
    (scan.pc \in {"posting", "no_vacancy"})
    => IF FreePositions = {}
       THEN scan.pc = "no_vacancy" /\ scan.found_target = <<>>
       ELSE LET p == CHOOSE x \in FreePositions :
                        \A y \in FreePositions : y = x \/ Before(x, y)
                venue == scan.pavilion_ids[p[1]]
                slot == scan.data[venue][p[2]]
            IN /\ scan.pc = "posting"
               /\ scan.found_target = <<venue, slot.t>>
               /\ scan.payload.event_code = venue
               /\ scan.payload.start_time = ExpectedStart(venue, slot.t)

C16_Witness ==
    /\ scan.pc = "posting"
    /\ scan.pavilion_ids = <<"H1H9">>
    /\ "H1H9" \in DOMAIN scan.data
    /\ scan.data["H1H9"] = <<[t |-> <<"1", "8", "4", "5">>, s |-> 0],
                             [t |-> <<"1", "9", "0", "0">>, s |-> 3]>>
    /\ scan.found_target = <<"H1H9", <<"1", "9", "0", "0">>>>
    /\ scan.payload.start_time = <<"1", "8", "5", "0">>

\* C17: current_state is always one of idle, monitoring, posting, success, and
\* it changes only along idle -> monitoring -> posting -> monitoring | success,
\* or back to idle.
Phases == {"idle", "monitoring", "posting", "success"}

PhaseEdges ==
    {<<"idle", "monitoring">>, <<"monitoring", "posting">>,
     <<"posting", "monitoring">>, <<"posting", "success">>}
    \cup {<<p, "idle">> : p \in Phases}

C17_PhaseFollowsStateMachine ==
    /\ fa.current_state \in Phases
    /\ [][/\ fa'.current_state \in Phases
          /\ fa'.current_state /= fa.current_state
             => <<fa.current_state, fa'.current_state>> \in PhaseEdges]_vars

\* C18: the cookie of the saved form data is changed only by the recovery
\* path (the autologin.py run and the read-back of cookie.txt that follows it).
RecoveryStep ==
    \E t \in CookieThreads :
        /\ cm[t].pc \in {"relogin", "readcookie"}
        /\ cm'[t].pc /= cm[t].pc

C18_OnlyRecoveryWritesCredential ==
    [][saved'.cookie /= saved.cookie => RecoveryStep]_vars

\* C18, amended: the cookie of the saved form data is changed only by the
\* recovery path and by the user's /start and /save requests, which store the
\* cookie of the posted form; /stop, the racer, its requests and the scheduler
\* never change it.
C18_RecoveryStartSaveWriteCredential ==
    [][saved'.cookie /= saved.cookie
       => \/ RecoveryStep
          \/ \E cookie \in FormCookies : ManualStart(cookie)
          \/ \E cookie \in FormCookies : ManualSave(cookie)]_vars

\* a scheduled racer is running on the typed credential a /save stored, and
\* the recovery has replaced that credential since
C18_Witness ==
    /\ saved.cookie = FreshCookie
    /\ \E k \in Racers : /\ rt[k].pc = "loop"
                          /\ rt[k].time_limit = SCHEDULE_TIME_LIMIT
                          /\ rt[k].cookie = TypedCookie

\* C19: once the recovery has replaced the stored credential, every
\* reservation request dispatched from then on carries the new credential, also
\* when its racer was started before the recovery.
C19_RequestsCarryRecoveredCredential ==
    [][\A q \in ReqSlots :
          (/\ saved.cookie = FreshCookie
           /\ reqs[q].pc = "none"
           /\ reqs'[q].pc = "inflight")
          => reqs'[q].cookie = FreshCookie]_vars

\* C20: a tick of the schedule trigger loop that cannot read or parse the
\* schedule store is followed by the next tick: the loop does not end.
C20_SchedulerSurvivesUnreadableStore ==
    [][(sched.pc = "load" /\ edit.pc = "write" /\ sched' /= sched)
       => sched'.pc = "load"]_vars

\* C21: whatever becomes of the success notification (not sent, delivered,
\* rejected by the webhook, transport exception), the thread that received the
\* success response goes on to clear running and then to set current_state to
\* success and end.
C21_NotificationNeverAffectsOutcome ==
    [][\A t \in Threads :
        /\ (mt[t].pc = "success_flag" /\ mt'[t].pc /= "success_flag")
           => /\ mt'[t].notified \in NotifyOutcomes
              /\ ~fa'.running
              /\ mt'[t].pc = "success_state"
        /\ (mt[t].pc = "success_state" /\ mt'[t].pc /= "success_state")
           => /\ mt[t].notified \in NotifyOutcomes
              /\ fa'.current_state = "success"
              /\ mt'[t].pc = "none"]_vars

C21_Witness ==
    /\ ~fa.running
    /\ \E t \in Threads : /\ mt[t].pc = "success_state"
                           /\ mt[t].notified = "exception"

\* C22: a reservation response is classified as a success exactly when its
\* status is 200 and its body is the empty JSON object; a 200 response with any
\* other body, a body that is not JSON included, is not a success.
C22_SuccessIffOkAndEmptyObject ==
    [][\A t \in Threads :
        (mt[t].pc = "post" /\ mt'[t].pc \in {"success_flag", "postwait"})
        => (mt'[t].pc = "success_flag"
            <=> (mt'[t].r.status_code = 200 /\ mt'[t].r.text = "{}"))]_vars

\* C23: the scheduler's write of the schedule list neither drops an entry that
\* was added nor brings back an entry that was deleted since the scheduler
\* loaded the list: the stored list holds the same entries before and after.
StoredUids(schedules) == {schedules[j].uid : j \in 1..Len(schedules)}

C23_SchedulerWriteKeepsEdits ==
    [][(sched.pc = "disable" /\ sched'.pc /= "disable")
       => StoredUids(schedule_store') = StoredUids(schedule_store)]_vars

\* C24: a GET that raises or is not answered 200 is followed by no POST and
\* leaves running, current_state and no_vacancy_count as they are; the thread
\* is back at the head of its loop and, while running is True, sends the next GET.
C24_FailedFetchIsRetried ==
    [][\A t \in Threads :
        /\ (/\ mt[t].pc = "get"
            /\ mt'[t].pc /= "get"
            /\ mt'[t].got \in {"exception", "non200"})
           => /\ fa' = fa
              /\ mt'[t].pc = "loop"
              /\ mt'[t].sent = ""
        /\ (mt[t].pc = "loop" /\ mt'[t].pc /= "loop" /\ fa.running)
           => mt'[t].pc = "get"]_vars

C24_Witness ==
    /\ fa.running
    /\ fa.current_state = "monitoring"
    /\ fa.no_vacancy_count = 1
    /\ \E t \in Threads : mt[t].pc = "loop" /\ mt[t].got = "exception"
    /\ \A t \in Threads : mt[t].pc \in {"loop", "none"}

\* C25: a POST that raises instead of returning a response leaves the thread
\* in its POST loop, with the budget of the target untouched.
C25_PostExceptionKeepsRacing ==
    [][\A t \in Threads :
        (mt[t].pc = "post" /\ mt'[t].pc /= "post" /\ mt'[t].r = NoResponse)
        => /\ mt'[t].pc \in {"postwait", "postloop"}
           /\ mt'[t].end_left = mt[t].end_left]_vars

\* C26: when the POST loop ends without a success while running is True,
\* current_state becomes monitoring, last_status_code None and
\* status_code_count 0, running stays True, and the thread's next step from
\* the loop head is another GET.
C26_ExhaustedBudgetResumesPolling ==
    [][\A t \in Threads :
        /\ (mt[t].pc = "postend" /\ mt'[t].pc /= "postend" /\ fa.running)
           => /\ fa'.current_state = "monitoring"
              /\ fa'.last_status_code = None
              /\ fa'.status_code_count = 0
              /\ fa'.running
              /\ fa'.no_vacancy_count = fa.no_vacancy_count
              /\ mt'[t].pc = "loop"
        /\ (/\ mt[t].pc = "loop"
            /\ mt[t].got = "vacancy"
            /\ mt'[t].pc /= "loop"
            /\ fa.running)
           => mt'[t].pc = "get"]_vars

\* a thread whose POSTs were answered 422 until the budget ran out
C26_Witness ==
    /\ fa.running
    /\ fa.current_state = "monitoring"
    /\ fa.last_status_code = None
    /\ fa.status_code_count = 0
    /\ \E t \in Threads : /\ mt[t].pc = "loop"
                           /\ mt[t].got = "vacancy"
                           /\ mt[t].post_duration > 0
    /\ \A t \in Threads : mt[t].pc \in {"loop", "none"}

\* C27: whenever no request is between receiving its response and storing the
\* counter, last_status_code is the status of the latest response and
\* status_code_count the number of responses in a row that had it, also when
\* the responses are handled by concurrent send_single_request threads.
C27_CounterCountsConsecutiveStatuses ==
    (\A q \in ReqSlots : reqs[q].pc /= "classify")
    => /\ mr.last_status_code = mr.streak_code
       /\ mr.status_code_count = mr.streak

\* C28: no_vacancy_count grows by exactly 1 with each GET that is answered and
\* shows no free slot, becomes 0 when a target is found and when /start is
\* accepted, is left alone by every other step, and is never negative.
C28_NoVacancyCountSteps ==
    [][LET polled(t) == mt[t].pc = "get" /\ mt'[t].pc /= "get"
       IN /\ fa'.no_vacancy_count >= 0
          /\ CASE \E t \in Threads : polled(t) /\ mt'[t].got = "no_vacancy" ->
                    fa'.no_vacancy_count = fa.no_vacancy_count + 1
               [] \E t \in Threads : polled(t) /\ mt'[t].got = "vacancy" ->
                    fa'.no_vacancy_count = 0
               [] \E t \in Threads : mt[t].pc = "none" /\ mt'[t].pc = "begin" ->
                    fa'.no_vacancy_count = 0
               [] OTHER ->
                    fa'.no_vacancy_count = fa.no_vacancy_count]_vars

C28_Witness ==
    /\ fa.no_vacancy_count = 2
    /\ fa.running
    /\ \E t \in Threads : mt[t].pc = "loop" /\ mt[t].got = "no_vacancy"
    /\ \A t \in Threads : mt[t].pc \in {"loop", "none"}

\* C29: while cookie_monitor_running is False, the next step of a monitor
\* thread that is in its wait leaves the wait, and its next step from the head
\* of the loop ends the thread: no validation and no recovery is started.
C29_StopEndsWaitingMonitor ==
    [][\A t \in CookieThreads :
        (cm[t].kind = "monitor" /\ ~ck.cookie_monitor_running /\ cm'[t] /= cm[t])
        => /\ cm[t].pc = "wait" => cm'[t].pc = "loop"
           /\ cm[t].pc = "loop" => cm'[t].pc = "none"]_vars

\* the stop was accepted while the thread had seconds of its wait left
C29_Witness ==
    /\ ~ck.cookie_monitor_running
    /\ \E t \in CookieThreads : /\ cm[t].kind = "monitor"
                                 /\ cm[t].pc = "wait"
                                 /\ cm[t].wait_left > 0

\* C30: once a /stop has cleared running and no /start is accepted, a thread
\* that finds running False at the head of its loop sends no GET and ends, every
\* thread that ends leaves current_state idle, and every thread does end.
C30_StopEndsPollerIdle ==
    /\ [][\A t \in Threads :
            /\ (mt[t].pc = "loop" /\ mt'[t].pc /= "loop" /\ ~fa.running)
               => mt'[t].pc = "exit"
            /\ (fa.stopped /\ mt[t].pc /= "none" /\ mt'[t].pc = "none")
               => fa'.current_state = "idle"]_vars
    /\ fa.stopped ~> (~fa.stopped \/ \A t \in Threads : mt[t].pc = "none")

\* C30, amended: as C30, except that a thread whose reservation request was in
\* flight when the /stop arrived and is answered with a success ends with
\* current_state success instead of idle.
C30_StopEndsPollerIdleOrSuccess ==
    /\ [][\A t \in Threads :
            /\ (mt[t].pc = "loop" /\ mt'[t].pc /= "loop" /\ ~fa.running)
               => mt'[t].pc = "exit"
            /\ (fa.stopped /\ mt[t].pc /= "none" /\ mt'[t].pc = "none")
               => fa'.current_state =
                     IF mt[t].pc = "success_state" THEN "success" ELSE "idle"]_vars
    /\ fa.stopped ~> (~fa.stopped \/ \A t \in Threads : mt[t].pc = "none")

\* after a /stop every thread has ended, the last one on a success answered to
\* a POST it had already sent
C30_Witness ==
    /\ fa.stopped
    /\ \A t \in Threads : mt[t].pc = "none"
    /\ fa.current_state = "success"

\* a live racer that schedule_monitor started
Scheduled(th) == th.pc /= "none" /\ th.time_limit = SCHEDULE_TIME_LIMIT

C32_SuccessEndsRacerWithinOneIteration ==
    [][\A k \in DOMAIN rt :
          (rt[k].cookie = InitialCookie /\ rt[k].pc = "loop" /\ rt'[k].pc = "body")
          => saved.cookie = InitialCookie]_vars

\* C33: the thread of a stopped run ends at its next test of the flag and
\* does not resume work next to the thread of a later run: once a later /start
\* has been accepted (the stored credential is the newly typed one), the thread
\* of the first run sends no further availability GET.
C33_StoppedThreadNeverResumes ==
    [][\A t \in Threads :
          (mt[t].cookie = InitialCookie /\ mt[t].pc = "loop" /\ mt'[t].pc = "get")
          => saved.cookie = InitialCookie]_vars

\* C34: a success response clears running only for the run that dispatched
\* the request: the request whose classification sets running from True to
\* False carries the credential of the run started last (the one /start stored).
C34_SuccessClearsOwnRunOnly ==
    [][\A q \in ReqSlots :
          (reqs[q].pc = "classify" /\ reqs'[q].pc = "none"
             /\ mr.running /\ ~mr'.running)
          => reqs[q].cookie = saved.cookie]_vars

\* C35: whenever the only live monitor_task thread goes on from line 344 to
\* its availability GET (line 346), current_state is monitoring, also after a
\* POST that raised an exception.
C35_GetOnlyWhileMonitoring ==
    [][\A t \in Threads :
          (/\ mt[t].pc = "loop" /\ mt'[t].pc = "get"
           /\ \A u \in Threads \ {t} : mt[u].pc = "none")
          => fa'.current_state = "monitoring"]_vars

\* the entry schedule_monitor is looking at is enabled and due at second 0
DueEntry ==
    /\ sched.pc = "scan"
    /\ sched.i <= Len(sched.schedules)
    /\ sched.schedules[sched.i].enabled
    /\ sched.schedules[sched.i].trigger_time = sched.current_time
    /\ sched.current_second = 0

\* C36: when schedule_monitor tests a due, enabled entry (line 521) while
\* running is True, it goes on to the next entry: no racer is started, the
\* entry stays enabled in its list, the store is not written, running and the
\* status counters keep their values.
C36_BusyTriggerIsSkipped ==
    [][(DueEntry /\ mr.running /\ sched' /= sched)
       => /\ sched' = [sched EXCEPT !.i = @ + 1]
          /\ UNCHANGED <<mr, rt, reqs, schedule_store, fired>>]_vars

\* the due entry was skipped during a run and is still enabled in the store
C36_Witness ==
    /\ sched.pc = "scan"
    /\ sched.i = 2
    /\ sched.current_second = 0
    /\ sched.schedules[1].enabled
    /\ sched.schedules[1].trigger_time = sched.current_time
    /\ schedule_store[1].enabled
    /\ fired[1] = 0
    /\ mr.running

\* a step in which /start of FullAutoReserver.py creates its thread, and one in
\* which /start of ManualReserver.py does
StartedFull == \E t \in Threads : mt[t].pc = "none" /\ mt'[t].pc = "begin"
StartedManual == \E k \in DOMAIN rt : rt[k].pc = "none" /\ rt'[k].pc = "begin"

\* C37: /start has an effect only when running is False. A thread is created,
\* the settings are saved, the phase is set to starting only in a step that
\* finds running False; with running True no step of /start changes running,
\* the counters, the phase, the settings or the threads.
C37_StartWhileRunningChangesNothing ==
    [][/\ StartedFull => ~fa.running
       /\ StartedManual => ~mr.running
       /\ saved' /= saved => (StartedFull \/ StartedManual)
       /\ (fa'.current_state = "starting" /\ fa.current_state /= "starting")
          => StartedFull
       /\ (mt' = mt /\ fa' /= fa) => (fa.running /\ ~fa'.running /\ fa'.stopped)
       /\ (rt' = rt /\ reqs' = reqs /\ mr' /= mr) => (~mr'.running)]_vars

\* both servers are running while their threads work: a /start sent now is
\* answered with the already-running status
C37_Witness ==
    /\ fa.running
    /\ mr.running
    /\ \E t \in Threads : mt[t].pc = "get"
    /\ \E k \in DOMAIN rt : rt[k].pc = "body"
    /\ saved.cookie = TypedCookie

\* C38: at most one cookie_monitor_loop is at work: a loop that passes the
\* test of line 320 and begins a validation cycle is the only
\* cookie_monitor_loop thread alive.
C38_AtMostOneMonitorLoop ==
    [][\A t \in CookieThreads :
          (cm[t].kind = "monitor" /\ cm[t].pc = "loop" /\ cm'[t].pc = "check")
          => \A u \in CookieThreads \ {t} : cm[u].kind /= "monitor"]_vars

\* a thread is inside relogin_and_update_cookie (lines 252-308)
Relogging(th) == th.pc \in {"relogin", "readcookie"}

\* C39: at most one thread, monitor loop or manual check, is inside
\* relogin_and_update_cookie.
C39_AtMostOneRelogin ==
    Cardinality({t \in CookieThreads : Relogging(cm[t])}) <= 1

\* C40: for every time of day and every probe the string the calibration
\* tool submitted equals the string adjust_time_for_post returns for the same
\* time under the table entry the tool recorded for that probe.
C40_CalibrationAgreesWithApplication ==
    adj.pc = "probed"
    => /\ ~adj.posted.raised
       /\ adj.posted.value = adj.adjusted_time
       /\ adj.adjustments[adj.pavilion] = -adj.offset

\* the largest probe on a time shortly after midnight: both wrap to 23:35
C40_Witness ==
    /\ adj.pc = "probed"
    /\ adj.t = <<"0", "0", "0", "5">>
    /\ adj.offset = 30
    /\ adj.adjusted_time = <<"2", "3", "3", "5">>
    /\ adj.posted.value = <<"2", "3", "3", "5">>

====
